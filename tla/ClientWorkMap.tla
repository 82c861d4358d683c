---------------------------- MODULE ClientWorkMap ----------------------------
(***************************************************************************)
(* Which client is working on what (Server/ClientWorkMap.cpp).             *)
(*                                                                         *)
(* The unordered_map from clients to WorkInfo is a function on Clients     *)
(* whose value is NoWork where there is no entry: the server never enters  *)
(* a WorkInfo of size zero.  Every method but Empty holds the map's mutex, *)
(* so each is one step; Empty reads the size without it.                   *)
(***************************************************************************)
EXTENDS Data

CONSTANTS Clients,   \* the connections (ClientData*) there ever are
          NoClient   \* nullptr

ASSUME NoClientAssumption == NoClient \notin Clients

NoEntries == [c \in Clients |-> NoWork]

HasWork(m, c) == m[c] # NoWork

\* Change: overwrite the client's entry, or emplace one.
Change(m, c, wi) == [m EXCEPT ![c] = wi]

\* Remove: erase the client's entry, whatever it is.
Remove(m, c) == [m EXCEPT ![c] = NoWork]

\* Empty
Empty(m) == \A c \in Clients : ~HasWork(m, c)

=============================================================================
