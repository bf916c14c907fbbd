--------------------------------- MODULE Fifo ---------------------------------
(***************************************************************************)
(* What the outbound path promises to those who queue stanzas, whatever    *)
(* the rate limiter, the channel and the session do: stanzas, numbered as  *)
(* they were accepted, leave in that order, each at most once; some may be *)
(* given up, and none of these is delivered later.                         *)
(***************************************************************************)
EXTENDS Naturals, Sequences, Functions

VARIABLES
  accepted,   \* how many stanzas were accepted
  delivered,  \* those that left, in order
  abandoned   \* those that were given up

fifoVars == <<accepted, delivered, abandoned>>

Waiting == 1..accepted \ (Range(delivered) \cup abandoned)

FifoInit == accepted = 0 /\ delivered = <<>> /\ abandoned = {}

Accept ==
  /\ accepted' \in Nat /\ accepted' >= accepted
  /\ UNCHANGED <<delivered, abandoned>>

\* The oldest stanza that waits leaves.
Deliver ==
  /\ \E s \in Waiting : /\ \A t \in Waiting : s <= t
                        /\ delivered' = Append(delivered, s)
  /\ UNCHANGED <<accepted, abandoned>>

Abandon ==
  /\ \E S \in SUBSET Waiting : abandoned' = abandoned \cup S
  /\ UNCHANGED <<accepted, delivered>>

FifoNext == Accept \/ Deliver \/ Abandon

FifoSpec == FifoInit /\ [][FifoNext]_fifoVars
=============================================================================
