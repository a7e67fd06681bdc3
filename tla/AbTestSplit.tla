----------------------------- MODULE AbTestSplit -----------------------------
(***************************************************************************)
(* SendAbTestBroadcastJob.handle: an audience is cut into one part per     *)
(* variant, by weight, and the rest, which gets the winner later.  A part  *)
(* is a range of offsets into the contacts ordered by id, read page by     *)
(* page, so a contact that comes or goes between two pages shifts every    *)
(* page after it.                                                          *)
(*                                                                         *)
(* The worker does not register this handler (BroadcastDelivery shows what *)
(* becomes of its jobs); it is modelled as the tests call it.              *)
(***************************************************************************)
EXTENDS Integers, FiniteSets, Sequences, FiniteSetsExt

CONSTANTS
    Contacts,      \* contact ids, numbers for the order of the query
    Weights,       \* the weights variants are stored with, in percent
    ShortShares,   \* the <<weight, total>> whose product of doubles is not quite whole
    BatchSize,     \* 75 in BaseJob
    MaxVariants,   \* bound: variants of the broadcast
    MaxMoves       \* bound: contacts that come or go once they were counted

\* Whole positive weights.  The DTO asks only that a weight is a number and that
\* a body's weights add up to less than 100: with one below zero (60 and -50) a
\* part begins inside the one before it, and nothing below holds.
ASSUME SplitAssumption ==
    /\ Contacts \subseteq Nat
    /\ IsFiniteSet(Contacts)
    /\ Weights \subseteq 1 .. 99
    /\ ShortShares \subseteq {s \in (1 .. 99) \X (Nat \ {0}) : (s[1] * s[2]) % 100 = 0}
    /\ BatchSize \in Nat \ {0}
    /\ MaxVariants \in Nat \ {0}
    /\ MaxMoves \in Nat

VARIABLES
    audience,   \* the contacts the broadcast's filter matches
    counted,    \* history: the audience when the handler counted it
    moves,      \* history: how many contacts came or went since then
    job,        \* where the handler stands: [pc, part, batch, ids]
    parts,      \* what it computed: the [weight, offset, size] of each part
    queued      \* the SendBroadcastToContact jobs: [part, batch, contact]

vars == <<audience, counted, moves, job, parts, queued>>

-----------------------------------------------------------------------------
\* PUT /broadcasts/:id checks that the weights of one request sum below 100 and
\* stores them beside the variants it does not name: their sum has no bound.
StoredWeights == UNION {[1 .. n -> Weights] : n \in 1 .. MaxVariants}

\* Mutant: Math.ceil for Math.floor.
ShareRoundedUp(weight, total) == (weight * total + 99) \div 100

\* Math.floor((weight / 100) * total), of doubles: 58% of 50 is 28.  They err by far
\* less than a hundredth, so only a product that is whole can come out one short.
Share(weight, total) ==
    (weight * total) \div 100 - (IF <<weight, total>> \in ShortShares THEN 1 ELSE 0)

Rank(c) == Cardinality({d \in audience : d < c})

\* ORDER BY id LIMIT limit OFFSET offset.
Page(offset, limit) ==
    {c \in audience : offset <= Rank(c) /\ Rank(c) < offset + limit}

SplitTypeOK ==
    /\ audience \subseteq Contacts /\ counted \subseteq Contacts
    /\ moves \in 0 .. MaxMoves
    /\ job.pc \in {"load", "count", "select", "bulk", "winner", "done", "failed"}
    /\ job.pc \in {"select", "bulk"} =>
          /\ job.part \in DOMAIN parts
          /\ job.batch \in Nat /\ job.batch * BatchSize < parts[job.part].size
          /\ job.ids \in SUBSET Contacts /\ Cardinality(job.ids) <= BatchSize
    /\ parts \in Seq([weight: Nat, offset: Nat, size: Int])
    /\ queued \subseteq [part: Nat, batch: Nat, contact: Contacts]

Init ==
    /\ audience \in SUBSET Contacts
    /\ counted = {}
    /\ moves = 0
    /\ job = [pc |-> "load", part |-> 1, batch |-> 0, ids |-> {}]
    /\ parts = <<>>
    /\ queued = {}

-----------------------------------------------------------------------------
\* A contact starts or stops matching the filter while the handler runs.
MoveContact(c) ==
    /\ job.pc \in {"select", "bulk"}
    /\ moves < MaxMoves
    /\ audience' = IF c \in audience THEN audience \ {c} ELSE audience \cup {c}
    /\ moves' = moves + 1
    /\ UNCHANGED <<counted, job, parts, queued>>

LoadBroadcast ==
    /\ job.pc = "load"
    /\ \E weights \in StoredWeights :
          parts' = [i \in DOMAIN weights |-> [weight |-> weights[i], offset |-> 0, size |-> 0]]
    /\ job' = [job EXCEPT !.pc = "count"]
    /\ UNCHANGED <<audience, counted, moves, queued>>

\* The offset of each part, and of what is left after the last.
Offsets(ps, total) ==
    LET offset[i \in 1 .. Len(ps) + 1] ==
            IF i = 1 THEN 0 ELSE offset[i - 1] + Share(ps[i - 1].weight, total)
    IN  offset

\* Consecutive parts, and what is left of the total as the last, of weight 0: its
\* size is below zero when the stored weights exceed 100.
Cut(ps, total) ==
    LET offset == Offsets(ps, total)
        end    == offset[Len(ps) + 1]
    IN  [i \in DOMAIN ps |-> [weight |-> ps[i].weight, offset |-> offset[i],
                              size   |-> Share(ps[i].weight, total)]]
        \o <<[weight |-> 0, offset |-> end, size |-> total - end]>>

\* The first page from part i on: an empty part has none, and after the last part
\* PickAbTestWinnerJob is scheduled.
Enter(i, ps) ==
    LET left == {p \in i .. Len(ps) : ps[p].size > 0}
    IN  IF left = {} THEN [pc |-> "winner", part |-> Len(ps), batch |-> 0, ids |-> {}]
        ELSE [pc |-> "select", part |-> Min(left), batch |-> 0, ids |-> {}]

CountContacts ==
    /\ job.pc = "count"
    /\ parts' = Cut(parts, Cardinality(audience))
    /\ job' = Enter(1, parts')
    /\ counted' = audience
    /\ UNCHANGED <<audience, moves, queued>>

\* Mutant: every page is full, as those of the final sample are.
LimitFull(part, batch) == BatchSize

\* A variant's last page stops at its end; the pages of the final sample are full.
Limit(part, batch) ==
    LET left == part.size - batch * BatchSize
    IN  IF part.weight > 0 /\ left < BatchSize THEN left ELSE BatchSize

SelectPage ==
    /\ job.pc = "select"
    /\ LET part == parts[job.part]
       IN  job' = [job EXCEPT !.pc = "bulk",
                              !.ids = Page(part.offset + job.batch * BatchSize,
                                           Limit(part, job.batch))]
    /\ UNCHANGED <<audience, counted, moves, parts, queued>>

\* Mutant: `batch <= totalBatches`, the loop of SendBroadcastJob.
HasMoreInclusive(part, batch) == batch * BatchSize < part.size

HasMore(part, batch) == (batch + 1) * BatchSize < part.size

AddPage ==
    /\ job.pc = "bulk"
    /\ queued' = queued \cup [part: {job.part}, batch: {job.batch}, contact: job.ids]
    /\ job' = IF HasMore(parts[job.part], job.batch)
              THEN [job EXCEPT !.pc = "select", !.batch = @ + 1, !.ids = {}]
              ELSE Enter(job.part + 1, parts)
    /\ UNCHANGED <<audience, counted, moves, parts>>

\* The PickAbTestWinnerJob it adds does nothing (BroadcastDelivery).
SchedulePickWinner ==
    /\ job.pc = "winner"
    /\ job' = [job EXCEPT !.pc = "done"]
    /\ UNCHANGED <<audience, counted, moves, parts, queued>>

\* Any await of the handler may reject, or the broadcast be gone; the job has one attempt.
HandlerThrows ==
    /\ job.pc \in {"load", "count", "select", "bulk", "winner"}
    /\ job' = [job EXCEPT !.pc = "failed", !.ids = {}]
    /\ UNCHANGED <<audience, counted, moves, parts, queued>>

Next ==
    \/ \E c \in Contacts : MoveContact(c)
    \/ LoadBroadcast \/ CountContacts \/ SelectPage \/ AddPage \/ SchedulePickWinner
    \/ HandlerThrows

Spec == Init /\ [][Next]_vars

-----------------------------------------------------------------------------
(* Properties *)

JobsFor(c) == {q \in queued : q.contact = c}
Repeated == {c \in Contacts : Cardinality(JobsFor(c)) > 1}
Missed == {c \in counted \cap audience : JobsFor(c) = {}}

(***************************************************************************)
(* The parts partition the contacts that were counted, for positive        *)
(* weights even when the stored ones exceed 100: no contact gets two mails *)
(* of the test and none is left out, but for one per contact that came or  *)
(* went while the pages were read.                                         *)
(***************************************************************************)
MoveCostsOne ==
    /\ Cardinality(Repeated) <= moves
    /\ job.pc = "done" => Cardinality(Missed) <= moves

(***************************************************************************)
(* With a steady audience and weights that leave room, a variant is sent   *)
(* to its share of the audience, or at most one contact less, in pages     *)
(* that do not spill into the part of the next one.                        *)
(***************************************************************************)
ShareHonoured ==
    job.pc = "done" /\ moves = 0 /\ parts[Len(parts)].size >= 0 =>
        \A i \in 1 .. Len(parts) - 1 :
            LET sent  == 100 * Cardinality({q \in queued : q.part = i})
                share == parts[i].weight * Cardinality(counted)
            IN  share - 100 <= sent /\ sent <= share

=============================================================================
