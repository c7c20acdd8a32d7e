----------------------------- MODULE DurableStore -----------------------------
(***************************************************************************)
(* What the DurableStore trait promises (crates/fsym-durable/src/store.rs),*)
(* free of any lane: a record is staged, then published in one step or not *)
(* at all; a commit is acknowledged only for a published record; nothing   *)
(* is ever unpublished.                                                    *)
(***************************************************************************)
CONSTANT Records

VARIABLES
  staged,     \* records whose staged bytes verify
  published,  \* records load_committed can read
  acked       \* records whose commit was answered with Ok

vars == <<staged, published, acked>>

Init == staged = {} /\ published = {} /\ acked = {}

\* prepare: "writes to a staging namespace".
Stage(r) == /\ staged' = staged \cup {r}
            /\ UNCHANGED <<published, acked>>

\* release: "discards a staged record without publishing".
Discard(r) == /\ staged' = staged \ {r}
              /\ UNCHANGED <<published, acked>>

\* commit: "publishes atomically".  The staged copy becomes the published one.
Publish(r) == /\ r \in staged
              /\ staged' = staged \ {r}
              /\ published' = published \cup {r}
              /\ acked' = acked \cup {r}

\* commit of a record that is already published: idempotent.
Acknowledge(r) == /\ r \in published
                  /\ acked' = acked \cup {r}
                  /\ UNCHANGED <<staged, published>>

Next == \E r \in Records : Stage(r) \/ Discard(r) \/ Publish(r) \/ Acknowledge(r)

Spec == Init /\ [][Next]_vars
=============================================================================
