----------------------------- MODULE KernelSummary -----------------------------
(***************************************************************************)
(* The totals in the log (src/src/kernels/substitute.cpp, LogDecision and  *)
(* ReportSummary).  Threads of the game count decisions on four atomic     *)
(* counters, one at a time; once per scan the worker reads them one by one *)
(* and writes a summary when the sum is the one of the scan before.        *)
(*                                                                         *)
(* The counters are 32 bits wide; a session creates a few hundred kernels, *)
(* so they do not wrap here.                                               *)
(***************************************************************************)
EXTENDS Integers

CONSTANT MaxDecisions  \* bound on the kernels of a session

ASSUME SummaryAssumption == MaxDecisions \in Nat

VARIABLES counters,    \* g_native, g_retargeted, g_refusals, g_unchanged
          rejections,  \* g_driver_rejections
          pending,     \* substituted images the driver has not answered for
          last_total,  \* g_last_total
          summarized,  \* g_summarized
          scan,          \* where the worker is in ReportSummary
          unread,      \* the counters it has not read yet
          seen,        \* what it has read
          settled,     \* the counters when this call began
          written,     \* the counters in the newest summary
          written_rejections

atomics == <<counters, rejections, last_total, summarized>>
workerVars == <<scan, unread, seen, settled, written, written_rejections>>
summaryVars == <<atomics, pending, workerVars>>

Verdicts == {"native", "retargeted", "refused", "unchanged"}
Zero == [k \in Verdicts |-> 0]
Total(c) == c["native"] + c["retargeted"] + c["refused"] + c["unchanged"]

SummaryInit ==
    /\ counters = Zero /\ rejections = 0 /\ pending = 0
    /\ last_total = 0 /\ summarized = 0
    /\ scan = "asleep" /\ unread = {} /\ seen = Zero /\ settled = Zero
    /\ written = Zero /\ written_rejections = 0

-----------------------------------------------------------------------------
\* LogDecision.  An image that was substituted goes to the driver next.
LogDecision(kind) ==
    /\ Total(counters) < MaxDecisions
    /\ counters' = [counters EXCEPT ![kind] = @ + 1]
    /\ pending' = IF kind \in {"native", "retargeted"} THEN pending + 1 ELSE pending
    /\ UNCHANGED <<rejections, last_total, summarized, workerVars>>

\* ReportDriverResult.
ReportDriverResult ==
    /\ pending > 0
    /\ pending' = pending - 1
    /\ rejections' \in {rejections, rejections + 1}
    /\ UNCHANGED <<counters, last_total, summarized, workerVars>>

-----------------------------------------------------------------------------
(* ReportSummary, on the worker. *)

Begin ==
    /\ scan = "asleep"
    /\ scan' = "reading"
    /\ unread' = Verdicts
    /\ settled' = counters
    /\ UNCHANGED <<atomics, pending, seen, written, written_rejections>>

\* The loads are relaxed: the compiler may take them in any order.
ReadCounter(kind) ==
    /\ scan = "reading"
    /\ kind \in unread
    /\ unread' = unread \ {kind}
    /\ seen' = [seen EXCEPT ![kind] = counters[kind]]
    /\ UNCHANGED <<atomics, pending, scan, settled, written, written_rejections>>

Anything == Total(seen) # 0  \* a mutant of Settled
Settled == Total(seen) # 0 /\ last_total = Total(seen)

\* g_last_total.exchange, unless there is nothing to report at all.
CompareWithLast ==
    /\ scan = "reading" /\ unread = {}
    /\ last_total' = IF Total(seen) = 0 THEN last_total ELSE Total(seen)
    /\ scan' = IF Settled THEN "settled" ELSE "asleep"
    /\ UNCHANGED <<counters, rejections, summarized, pending, unread, seen, settled, written,
                   written_rejections>>

Once == summarized = 0  \* a mutant of News
News == summarized # Total(seen)

\* g_summarized.exchange.
CompareWithWritten ==
    /\ scan = "settled"
    /\ summarized' = Total(seen)
    /\ scan' = IF News THEN "writing" ELSE "asleep"
    /\ UNCHANGED <<counters, rejections, last_total, pending, unread, seen, settled, written,
                   written_rejections>>

Write ==
    /\ scan = "writing"
    /\ scan' = "asleep"
    /\ written' = seen
    /\ written_rejections' = rejections
    /\ UNCHANGED <<atomics, pending, unread, seen, settled>>

ReportSummary ==
    \/ Begin \/ CompareWithLast \/ CompareWithWritten \/ Write
    \/ \E kind \in Verdicts : ReadCounter(kind)

SummaryNext ==
    \/ \E kind \in Verdicts : LogDecision(kind)
    \/ ReportDriverResult
    \/ ReportSummary

SummarySpec == SummaryInit /\ [][SummaryNext]_summaryVars

\* The worker scans once a second for as long as the process lives, and the
\* driver answers every call.
FairSpec == SummarySpec /\ WF_summaryVars(ReportSummary) /\ WF_summaryVars(ReportDriverResult)
-----------------------------------------------------------------------------
\* Types of the variables.
SummaryTypeOK ==
    /\ counters \in [Verdicts -> Nat] /\ seen \in [Verdicts -> Nat]
    /\ settled \in [Verdicts -> Nat] /\ written \in [Verdicts -> Nat]
    /\ rejections \in Nat /\ pending \in Nat /\ written_rejections \in Nat
    /\ last_total \in Nat /\ summarized \in Nat
    /\ scan \in {"asleep", "reading", "settled", "writing"}
    /\ unread \subseteq Verdicts

\* The four numbers of a summary were all true at one moment, the beginning of
\* the call that writes it, although they are read one by one while other threads
\* count (substitute.cpp:346-354).
SummaryIsSnapshot == scan \in {"settled", "writing"} => seen = settled

\* Nothing more is written until the total changes: each summary has a larger
\* total than the one before (substitute.h:113-114).
EachSummaryIsNews == [][Write => Total(written') > Total(written)]_summaryVars

\* Once the runtime has stopped creating kernels, the last summary says how many.
FinalTotalsWritten == <>[](written = counters)
===============================================================================
