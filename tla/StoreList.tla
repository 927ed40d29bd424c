------------------------------ MODULE StoreList ------------------------------
(***************************************************************************)
(* What a plugin store promises those who joined it: a numbered list of    *)
(* the plugins it offers.  The number moves with every change of the list, *)
(* so one number stands for one list, and what a version of a plugin is    *)
(* does not change while it is offered.                                    *)
(*                                                                         *)
(* StorePlugins implements it; StoreClient is written against it.          *)
(***************************************************************************)
EXTENDS Integers

CONSTANTS
    Ids,         \* the plugins
    Versions,    \* of a plugin
    Files        \* a plugin's bytes, known by their digest

VARIABLES
    sequence,    \* the number of the list
    list         \* [Ids -> what is offered, or nothing]

storeVars == <<sequence, list>>

Entry   == [id : Ids, version : Versions, file : Files]
NoEntry == [id |-> "none"]
List    == {l \in [Ids -> Entry \cup {NoEntry}] :
              \A i \in Ids : l[i] # NoEntry => l[i].id = i}

(* What a version is stays as it is while it is offered. *)
Stands(l, m) == \A i \in Ids :
                  l[i] # NoEntry /\ m[i] # NoEntry /\ l[i].version = m[i].version => l[i] = m[i]

Init == /\ sequence = 0
        /\ list = [i \in Ids |-> NoEntry]

Change == /\ sequence' = sequence + 1
          /\ list' \in List /\ Stands(list, list')

Spec == Init /\ [][Change]_storeVars
=============================================================================
