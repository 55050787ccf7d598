------------------------------ MODULE TicketPool ------------------------------
(***************************************************************************)
(* The ticket allocator: for an account it reads the sequence, then the     *)
(* tickets, in two calls, and suggests a TicketCreate for what the pool     *)
(* lacks. Several bots of the account ask, and submit what was suggested    *)
(* whenever they like, to a ledger that moves on in between. The tool asks  *)
(* for the validated ledger of whichever node of a cluster answers, so each *)
(* answer may be of an earlier ledger than the last, or than the one before.*)
(***************************************************************************)
EXTENDS Integers

CONSTANTS
  Bots,     \* callers of /tools/xrpl/ticket-pool for one account
  Target,   \* target_pool_size
  MaxMoves  \* bound: transactions of the account

ASSUME PoolAssumption == Target \in Nat \ {0} /\ MaxMoves \in Nat

VARIABLES
  sequence, \* the account's Sequence
  tickets,  \* its tickets
  past,     \* the account in earlier validated ledgers, which a node may still show
  moves,    \* transactions so far
  asks,     \* each bot: what the tool read for it, and the transaction it was given
  missed    \* history: tickets the last TicketCreate was suggested without seeing

poolVars == <<sequence, tickets, past, moves, asks, missed>>

Unasked == [step |-> "unasked", sequence |-> 0, count |-> 0, missed |-> 0]
Now == [sequence |-> sequence, tickets |-> tickets]
Shown == past \cup {Now}

PoolInit ==
  /\ sequence = 0 /\ tickets \in 0..Target /\ past = {} /\ moves = 0
  /\ asks = [b \in Bots |-> Unasked] /\ missed = 0

\* AccountInfo.
ReadInfo(b) ==
  /\ asks[b].step = "unasked"
  /\ \E view \in Shown :
       asks' = [asks EXCEPT ![b] = [Unasked EXCEPT !.step = "info",
                                                   !.sequence = view.sequence]]
  /\ UNCHANGED <<sequence, tickets, past, moves, missed>>

\* Mistake, not part of PoolSpec: the sequence comes from a call after the count, and
\* another transaction may be applied between the two.
SuggestLate(b) ==
  /\ asks[b].step = "info"
  /\ tickets < Target
  /\ \E later \in sequence..(sequence + Target + 1) :
       asks' = [asks EXCEPT ![b] = [step |-> "advised", sequence |-> later,
                                    count |-> Target - tickets, missed |-> 0]]
  /\ UNCHANGED <<sequence, tickets, past, moves, missed>>

\* The tickets there are and the answer does not show, when it is of a ledger before the
\* one the sequence came from.
Unseen(b, view) ==
  IF view.sequence < asks[b].sequence /\ view.tickets < tickets
  THEN tickets - view.tickets ELSE 0

\* AccountObjects, the deficit, and the suggested transaction.
Suggest(b) ==
  /\ asks[b].step = "info"
  /\ \E view \in Shown :
       asks' = [asks EXCEPT ![b] =
         IF view.tickets < Target
         THEN [step |-> "advised", sequence |-> asks[b].sequence,
               count |-> Target - view.tickets, missed |-> Unseen(b, view)]
         ELSE Unasked]
  /\ UNCHANGED <<sequence, tickets, past, moves, missed>>

\* Either call fails: 404 or 502.
LookupFails(b) ==
  /\ asks[b].step = "info"
  /\ asks' = [asks EXCEPT ![b] = Unasked]
  /\ UNCHANGED <<sequence, tickets, past, moves, missed>>

\* A transaction of the account in a ledger leaves the one before behind.
Applied == moves < MaxMoves /\ moves' = moves + 1 /\ past' = Shown

\* The ledger applies a TicketCreate whose Sequence is the account's, and refuses any
\* other; the sequence moves past the new tickets. A bot may keep what was refused.
Submit(b) ==
  /\ asks[b].step = "advised"
  /\ IF asks[b].sequence = sequence
     THEN /\ Applied
          /\ tickets' = tickets + asks[b].count
          /\ sequence' = sequence + asks[b].count + 1
          /\ missed' = asks[b].missed
     ELSE UNCHANGED <<tickets, sequence, past, moves, missed>>
  /\ asks' = [asks EXCEPT ![b] = Unasked]

\* A transaction that uses a ticket, or the sequence.
UseTicket ==
  /\ tickets > 0 /\ Applied
  /\ tickets' = tickets - 1
  /\ UNCHANGED <<sequence, asks, missed>>
UseSequence ==
  /\ Applied
  /\ sequence' = sequence + 1
  /\ UNCHANGED <<tickets, asks, missed>>

PoolNext ==
  \/ UseTicket \/ UseSequence
  \/ \E b \in Bots : ReadInfo(b) \/ Suggest(b) \/ LookupFails(b) \/ Submit(b)

PoolSpec == PoolInit /\ [][PoolNext]_poolVars

-------------------------------------------------------------------------------
(* Properties.                                                               *)

PoolTypeOK ==
  /\ sequence \in Nat /\ tickets \in Nat /\ moves \in 0..MaxMoves /\ missed \in Nat
  /\ past \subseteq [sequence : Nat, tickets : Nat]
  /\ asks \in [Bots -> [step : {"unasked", "info", "advised"}, sequence : Nat,
                        count : Nat, missed : Nat]]

\* Bots that follow the suggestions, however late and in whatever order they submit them,
\* take the pool over its target only when the tickets were counted in an older ledger
\* than the sequence was read from, and then by no more than that count was short: any
\* other count that is out of date comes with a sequence that is gone (get_ticket_pool
\* reads the sequence first).
PoolWithinTarget == tickets <= Target + missed

\* Why: a suggestion that still names the account's sequence fits the pool, up to what
\* it did not see; and ledgers with the same sequence differ by tickets that were used.
SuggestionFits ==
  /\ \A b \in Bots : asks[b].sequence <= sequence
       /\ (asks[b].step = "advised" /\ asks[b].sequence = sequence
             => tickets + asks[b].count <= Target + asks[b].missed)
  /\ \A view \in past : view.sequence <= sequence
       /\ (view.sequence = sequence => tickets <= view.tickets)
===============================================================================
