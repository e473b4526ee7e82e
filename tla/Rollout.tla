------------------------------- MODULE Rollout --------------------------------
(***************************************************************************)
(* What the supervisor of the game server promises those who edit its      *)
(* configuration: one server at a time serves players, with one content of *)
(* the file from its start to its end, a content that can be used, and     *)
(* never an older one than a server before it.                             *)
(*                                                                         *)
(* Not that every content is served: edits may come faster than restarts,  *)
(* and some are lost.  Supervisor implements this specification.           *)
(***************************************************************************)
EXTENDS Integers

CONSTANTS
    Servers,    \* the servers, in the order they are made
    None        \* what a server runs whose configuration was not written

VARIABLES
    disk,       \* content of the file, which is the number of edits before it
    bad,        \* contents that cannot be used
    content,    \* what each server runs, or ran
    serving     \* the servers that serve

vars == <<disk, bad, content, serving>>

Init ==
    /\ disk = 0 /\ bad = {}
    /\ content = [p \in Servers |-> None] /\ serving = {}

Publish ==
    /\ disk' = disk + 1 /\ bad' \in {bad, bad \cup {disk'}}
    /\ UNCHANGED <<content, serving>>

Usable == {c \in 0..disk : c \notin bad}

Serve(p) ==
    /\ serving = {} /\ \A q \in Servers : q >= p => content[q] = None
    /\ \E c \in Usable \cup {None} :
          /\ c # None => \A q \in Servers : content[q] # None => content[q] <= c
          /\ content' = [content EXCEPT ![p] = c]
    /\ serving' = {p}
    /\ UNCHANGED <<disk, bad>>

Stop ==
    /\ serving # {} /\ serving' = {}
    /\ UNCHANGED <<disk, bad, content>>

Next == Publish \/ Stop \/ \E p \in Servers : Serve(p)

Spec == Init /\ [][Next]_vars
===============================================================================
