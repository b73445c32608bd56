---------------------------- MODULE MCReviewDesk ----------------------------
(***************************************************************************)
(* The instances of ReviewDesk that TLC checks.                            *)
(***************************************************************************)
EXTENDS ReviewDesk, TLC

\* Workers have no identity, so they may be exchanged.
WorkerSymmetry == Permutations(Workers)

\* What the steps, and the properties of the desk, depend on: not how often memory has been
\* written, how many calls approve, whether calls have overlapped, what was shown to the
\* client of a call that is over, nor which status a screen shows.
DeskView ==
  <<ckpt, call, run, listed, drafts, calls, crashes, session, desk, fresh, lost,
    [w \in {v \in Workers : Busy(v)} |-> shown[w]],
    [c \in Clients |-> IF screen[c] \in Views
                       THEN <<AtGate(c), screen[c].next = "END", IF AtGate(c) THEN screen[c].draft ELSE 0>>
                       ELSE <<screen[c]>>]>>

=============================================================================
