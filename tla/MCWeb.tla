-------------------------------- MODULE MCWeb --------------------------------
(***************************************************************************)
(* Instances of Web for TLC: an approver, an administrator and an account  *)
(* that does not exist yet, two browsers, two threads.                     *)
(***************************************************************************)
EXTENDS Web, TLC

CONSTANTS Asha, Root, Newcomer, Desk, Office, T1, T2

MCRows == (Asha :> NewRow("approver")) @@ (Root :> NewRow("admin"))
          @@ (Newcomer :> NoAccount)

\* The administrator is signed in; the approver may be.
MCSignedIn == {(Desk :> a) @@ (Office :> Root) : a \in {NoActor, Asha}}

MCForms == {[token |-> "own", origin |-> "dashboard"],
            [token |-> "stale", origin |-> "dashboard"],
            [token |-> "own", origin |-> "elsewhere"]}

MCWorkloads ==
    {[kinds |-> {"login", "logout", "role", "disable", "password", "create"},
      requests |-> 3],
     [kinds |-> {"reverify", "act"}, requests |-> 2],
     [kinds |-> {"health", "act", "role", "logout"}, requests |-> 2]}

\* A refused creation, two requests that change an account, one that is served.
DuplicateWorkload ==
    {[kinds |-> {"create", "logout", "role", "health"}, requests |-> 4]}

Interchangeable == Permutations(Threads)
=============================================================================
