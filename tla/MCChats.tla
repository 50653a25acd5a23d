------------------------------- MODULE MCChats -------------------------------
(***************************************************************************)
(* Two contacts, of whom one is known at the start, and a main area of one *)
(* row.                                                                    *)
(***************************************************************************)
EXTENDS Chats

CONSTANTS a, b

MCContact == {a, b}
KnowA == <<a>>

(* The run stops at a data race, after which nothing is said of the lists *)
NoRace == raced = {}
=============================================================================
