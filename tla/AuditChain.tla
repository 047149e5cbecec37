------------------------------- MODULE AuditChain -------------------------------
(* The audit records, each linked to the one before it, and the anchor a day  *)
(* of them is sealed with.                                                    *)
(*                                                                            *)
(* A command reads its clock, works, and writes its audit records in its own  *)
(* transaction; the trigger takes one lock for all, reads the head and links  *)
(* the record to it.  Sealing reads a day in one statement and writes the     *)
(* anchor in a transaction after it.  A hash is modelled by what it commits   *)
(* to: the records up to it, in their order.                                  *)
EXTENDS Integers, Sequences, FiniteSets, FiniteSetsExt

CONSTANTS
    Writers,       \* transactions that write audit records
    Sealers,       \* calls of sealDay
    MaxDay,        \* bound of the instance: days that pass
    MaxRecords     \* bound of the instance: records ever written

ASSUME ChainAssumption == MaxDay \in Nat \ {0} /\ MaxRecords \in Nat

VARIABLES
    today,
    chain,       \* committed records in the order of their chain_seq
    writing,     \* each transaction: the day it read, and the records only it sees
    sealing,     \* each call's summary of the day it has read
    anchor,      \* the anchor of each day
    witnessed    \* AuditAnchorSealed events, by day

auditVars == <<today, chain, writing, sealing, anchor, witnessed>>

NotWriting == [day |-> 0, rows |-> <<>>]
NoSummary == [day |-> 0, first |-> 0, last |-> 0, count |-> 0, head |-> <<>>, over |-> FALSE]

ChainInit ==
    /\ today = 1 /\ chain = <<>>
    /\ writing = [w \in Writers |-> NotWriting]
    /\ sealing = [k \in Sealers |-> NoSummary]
    /\ anchor = [d \in 1..MaxDay |-> NoSummary]
    /\ witnessed = [d \in 1..MaxDay |-> 0]

Genesis == <<>>
Hash(prev, content) == Append(prev, content)
HeadHash(rows) == IF rows = <<>> THEN Genesis ELSE rows[Len(rows)].hash

Written == Len(chain) + MapThenSumSet(LAMBDA w : Len(writing[w].rows), Writers)

DayPasses ==
    /\ today < MaxDay
    /\ today' = today + 1
    /\ UNCHANGED <<chain, writing, sealing, anchor, witnessed>>

\* A command begins and reads its clock.
WriterBegins(w) ==
    /\ writing[w] = NotWriting
    /\ writing' = [writing EXCEPT ![w].day = today]
    /\ UNCHANGED <<today, chain, sealing, anchor, witnessed>>

HasTheLock(w) == writing[w].rows # <<>>

\* The trigger: the lock, which is held to the end of the transaction, and the
\* head as committed or as written before in this transaction.  The unique key
\* on chain_seq would refuse what the lock prevents.
RecordIsChained(w) ==
    /\ writing[w].day # 0
    /\ \A v \in Writers \ {w} : ~HasTheLock(v)
    /\ Written < MaxRecords
    /\ LET prev == HeadHash(chain \o writing[w].rows)
           row == [by |-> w, day |-> writing[w].day, prev |-> prev,
                   hash |-> Hash(prev, <<w, writing[w].day>>)]
       IN writing' = [writing EXCEPT ![w].rows = Append(@, row)]
    /\ UNCHANGED <<today, chain, sealing, anchor, witnessed>>

WriterCommits(w) ==
    /\ HasTheLock(w)
    /\ chain' = chain \o writing[w].rows
    /\ writing' = [writing EXCEPT ![w] = NotWriting]
    /\ UNCHANGED <<today, sealing, anchor, witnessed>>

\* A refused command, a conflict on save, a lost connection.
WriterRollsBack(w) ==
    /\ writing[w] # NotWriting
    /\ writing' = [writing EXCEPT ![w] = NotWriting]
    /\ UNCHANGED <<today, chain, sealing, anchor, witnessed>>

DayRows(d) == {i \in DOMAIN chain : chain[i].day = d}

Summary(d) ==
    [day |-> d, first |-> Min(DayRows(d)), last |-> Max(DayRows(d)),
     count |-> Cardinality(DayRows(d)), head |-> chain[Max(DayRows(d))].hash]

\* Whether nothing more of the day can come: it has passed, and no transaction
\* that began in it is open.  No step reads it; sealDay leaves it to its caller.
DayIsOver(d) == d < today /\ \A w \in Writers : writing[w].day # d

\* Mutant: the head that is signed is the chain's, not the day's.
MutantSealReads(k, d) ==
    /\ sealing[k] = NoSummary /\ anchor[d] = NoSummary
    /\ DayRows(d) # {}
    /\ sealing' = [sealing EXCEPT ![k] =
          [f \in DOMAIN NoSummary |->
              CASE f = "over" -> DayIsOver(d)
                [] f = "head" -> HeadHash(chain)
                [] OTHER -> Summary(d)[f]]]
    /\ UNCHANGED <<today, chain, writing, anchor, witnessed>>

\* sealDay up to its transaction.
SealReads(k, d) ==
    /\ sealing[k] = NoSummary /\ anchor[d] = NoSummary
    /\ DayRows(d) # {}
    /\ sealing' = [sealing EXCEPT ![k] =
          [f \in DOMAIN NoSummary |-> IF f = "over" THEN DayIsOver(d) ELSE Summary(d)[f]]]
    /\ UNCHANGED <<today, chain, writing, anchor, witnessed>>

VerifyChain(from, to) ==
    \A i \in from..to :
        LET prev == IF i = 1 THEN Genesis ELSE chain[i - 1].hash IN
        /\ chain[i].prev = prev
        /\ chain[i].hash = Hash(prev, <<chain[i].by, chain[i].day>>)

\* Its transaction: the range is verified, and the anchor and its event are
\* written, unless the day's unique key names another call that was first.
SealEnds(k) ==
    /\ sealing[k] # NoSummary
    /\ LET d == sealing[k].day IN
       IF VerifyChain(sealing[k].first, sealing[k].last) /\ anchor[d] = NoSummary
       THEN /\ anchor' = [anchor EXCEPT ![d] = sealing[k]]
            /\ witnessed' = [witnessed EXCEPT ![d] = @ + 1]
       ELSE UNCHANGED <<anchor, witnessed>>
    /\ sealing' = [sealing EXCEPT ![k] = NoSummary]
    /\ UNCHANGED <<today, chain, writing>>

SealIsLost(k) ==
    /\ sealing[k] # NoSummary
    /\ sealing' = [sealing EXCEPT ![k] = NoSummary]
    /\ UNCHANGED <<today, chain, writing, anchor, witnessed>>

ChainNext ==
    \/ DayPasses
    \/ \E w \in Writers :
          WriterBegins(w) \/ RecordIsChained(w) \/ WriterCommits(w) \/ WriterRollsBack(w)
    \/ \E k \in Sealers :
          SealEnds(k) \/ SealIsLost(k) \/ (\E d \in 1..MaxDay : SealReads(k, d))

ChainSpec == ChainInit /\ [][ChainNext]_auditVars

-----------------------------------------------------------------------------
(* Properties *)

VerifyAnchor(d) ==
    /\ DayRows(d) # {}
    /\ \A f \in {"first", "last", "count", "head"} : Summary(d)[f] = anchor[d][f]

\* An honest history verifies: the chain is one unbroken order although its
\* records are written by transactions side by side and some roll back, and a
\* day that was over when it was read for sealing is as its anchor says.
HonestHistoryVerifies ==
    /\ VerifyChain(1, Len(chain))
    /\ \A d \in 1..MaxDay : anchor[d] # NoSummary /\ anchor[d].over => VerifyAnchor(d)

=============================================================================
