---------------------------- MODULE EntryTiming ----------------------------
(***************************************************************************)
(* How much time is left to the settlement when a position is entered: the *)
(* engine, and of internal/strategy the life of a proposal in time.  The   *)
(* caps, the position book and the answers other than an approval, which   *)
(* only make fewer entries, are in Strategy.                               *)
(***************************************************************************)
EXTENDS Engine, FiniteSets

CONSTANTS
  ProposalTTL,  \* cfg.ProposalTTL
  MaxProposals  \* bound on the proposals pending at once

VARIABLES
  proposals,  \* s.proposals: candidates with the time that is left to approve them
  entries     \* candidates that were executed, with their time to funding then

entryVars == <<engineVars, proposals, entries>>

EntryInit == EngineInit /\ proposals = {} /\ entries = {}

\* handleCandidate: the candidate is turned into a proposal as it is, or not at all.
Propose ==
  /\ TakeCandidate
  /\ LET c == Head(candidateCh)
     IN  \/ UNCHANGED proposals
         \/ /\ Cardinality(proposals) < MaxProposals
            /\ proposals' =
                 proposals \cup {[pair |-> c.pair, ttf |-> c.ttf, left |-> ProposalTTL]}
  /\ UNCHANGED entries

\* handleApproval: a proposal that did not run out is executed.
Enter ==
  /\ \E p \in proposals :
       /\ p.left > 0
       /\ proposals' = proposals \ {p}
       /\ entries' = entries \cup {[pair |-> p.pair, ttf |-> p.ttf]}
  /\ UNCHANGED engineVars

\* expireProposals, or an approval that comes too late.
Expire ==
  /\ \E p \in proposals : p.left = 0 /\ proposals' = proposals \ {p}
  /\ UNCHANGED <<engineVars, entries>>

EntryElapse ==
  /\ Elapse
  /\ proposals' = {[Nearing(p) EXCEPT !.left = IF @ > 0 THEN @ - 1 ELSE @] : p \in proposals}
  /\ UNCHANGED entries

EntryNext ==
  \/ EngineStep /\ UNCHANGED <<proposals, entries>>
  \/ Propose \/ Enter \/ Expire \/ EntryElapse

EntrySpec == EntryInit /\ [][EntryNext]_entryVars

-----------------------------------------------------------------------------
\* No position is entered within the window before the settlement: config.go:26
\* says of PreSettlementWindow "block new entries this close to funding".  The
\* engine looks at it when it finds the candidate, nobody when it is approved
\* (engine.go:137, strategy.go:202-212).
EntriesAvoidSettlement == \A e \in entries : e.ttf >= PreSettlement

=============================================================================
