---------------------------- MODULE ContentStore ----------------------------
(***************************************************************************)
(* What the KOLEJKA server promises about the contents it stores, with     *)
(* every step indivisible.  What was once stored stays stored.  A content  *)
(* is listed only when it is stored or an upload of it is due to store it, *)
(* and stays listed while a reference to it is live.  A reference stands   *)
(* for one content for ever: it may be dropped, and a request that read it *)
(* before may bring it back, but only to the content it was made for.      *)
(*                                                                         *)
(* BlobStore splits the requests into statements on rows and files and is  *)
(* shown to implement this module.                                         *)
(***************************************************************************)

CONSTANTS Contents,    \* what can be uploaded
          References,  \* keys of references
          None         \* the content of a reference not made yet

VARIABLES listed,  \* contents the server says it has
          stored,  \* contents it can serve
          due,     \* contents some upload is, or died, about to store
          made,    \* the content each reference was made for
          live     \* references that can be read

vars == <<listed, stored, due, made, live>>

Init == /\ listed = {}
        /\ stored = {}
        /\ due = {}
        /\ made = [r \in References |-> None]
        /\ live = {}

\* An upload lists its content before it stores it.
Announce(c) ==
  /\ listed' = listed \cup {c}
  /\ due' = due \cup {c}
  /\ UNCHANGED <<stored, made, live>>

\* Another upload of the same content may still be due.
Store(c) ==
  /\ c \in due
  /\ stored' = stored \cup {c}
  /\ due' \in {due, due \ {c}}
  /\ UNCHANGED <<listed, made, live>>

\* A request that knew the content lists it again.
ListAgain(c) ==
  /\ c \in stored \cup due
  /\ listed' = listed \cup {c}
  /\ UNCHANGED <<stored, due, made, live>>

Unlist(c) ==
  /\ \A r \in live : made[r] # c
  /\ listed' = listed \ {c}
  /\ UNCHANGED <<stored, due, made, live>>

Make(r, c) ==
  /\ made[r] = None /\ c \in listed
  /\ made' = [made EXCEPT ![r] = c]
  /\ live' = live \cup {r}
  /\ UNCHANGED <<listed, stored, due>>

BringBack(r) ==
  /\ made[r] \in listed
  /\ live' = live \cup {r}
  /\ UNCHANGED <<listed, stored, due, made>>

Drop(S) ==
  /\ live' = live \ S
  /\ UNCHANGED <<listed, stored, due, made>>

Next ==
  \/ \E c \in Contents : Announce(c) \/ Store(c) \/ ListAgain(c) \/ Unlist(c)
  \/ \E r \in References, c \in Contents : Make(r, c)
  \/ \E r \in References : BringBack(r)
  \/ \E S \in SUBSET References : Drop(S)

Spec == Init /\ [][Next]_vars

=============================================================================
