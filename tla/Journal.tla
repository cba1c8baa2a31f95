------------------------------ MODULE Journal ------------------------------
(***************************************************************************)
(* What the control plane promises its clients (ADR-0002): the journal     *)
(* only grows, by the whole body of one call at a time, each body is legal *)
(* where it lands, no call lands twice, and the materialised view is the   *)
(* fold of the journal at every moment.                                    *)
(***************************************************************************)
EXTENDS Reduction

CONSTANTS Calls, Bodies

VARIABLES
  log,      \* the events that have landed
  summary   \* what the clients are shown

Row(stream) == [watermark |-> Len(stream), state |-> Reduce(stream)]

JournalInit ==
  /\ log = << >>
  /\ summary = Row(<< >>)

Land(c, body) ==
  /\ \A i \in DOMAIN log : log[i].call # c
  /\ log' = log \o Tagged(c, body)
  /\ Replayable(log')
  /\ summary' = Row(log')

JournalNext == \E c \in Calls, body \in Bodies : Land(c, body)

JournalSpec == JournalInit /\ [][JournalNext]_<<log, summary>>

=============================================================================
