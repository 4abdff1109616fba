---------------------------- MODULE LossSummary ----------------------------
(***************************************************************************)
(* Loss, duplicates and reordering derived from the sequence numbers of    *)
(* the received rows, twice: as workload/listener.py prints them and as    *)
(* tsn_analysis/metrics.py recomputes them from the CSV.  The two were     *)
(* written independently and have to agree.                                *)
(***************************************************************************)
EXTENDS Integers, Sequences, FiniteSets

Unique(seqs) == Cardinality({seqs[i] : i \in DOMAIN seqs})

\* max(seqs) + 1
Expected(seqs) ==
    LET m == CHOOSE i \in DOMAIN seqs : \A j \in DOMAIN seqs : seqs[j] <= seqs[i]
    IN  seqs[m] + 1

\* The listener's loop: max_seen only moves when a row is not late.
ReordersWithDups(seqs) ==     \* mutant: a duplicate counts as late
    LET scan[i \in 0 .. Len(seqs)] ==
          IF i = 0 THEN [max_seen |-> -1, reorders |-> 0]
          ELSE IF seqs[i] <= scan[i - 1].max_seen
               THEN [scan[i - 1] EXCEPT !.reorders = @ + 1]
               ELSE [scan[i - 1] EXCEPT !.max_seen = seqs[i]]
    IN  scan[Len(seqs)].reorders
scan(seqs) ==
    LET row[i \in 0 .. Len(seqs)] ==
          IF i = 0 THEN [max_seen |-> -1, reorders |-> 0]
          ELSE IF seqs[i] < row[i - 1].max_seen
               THEN [max_seen |-> row[i - 1].max_seen, reorders |-> row[i - 1].reorders + 1]
               ELSE [max_seen |-> seqs[i], reorders |-> row[i - 1].reorders]
    IN  row
Reorders(seqs) == scan(seqs)[Len(seqs)].reorders

\* listener.py, printed when the listener ends with rows.
ListenerSummary(seqs) ==
    [expected   |-> Expected(seqs),
     lost       |-> Expected(seqs) - Unique(seqs),
     duplicates |-> Len(seqs) - Unique(seqs),
     reorders   |-> Reorders(seqs)]

\* metrics.py: every row is compared with the running maximum before it.
running_max(seqs) ==
    LET acc[i \in 1 .. Len(seqs)] ==
          IF i = 1 \/ seqs[i] > acc[i - 1] THEN seqs[i] ELSE acc[i - 1]
    IN  acc

loss_summaryAligned(seqs) ==   \* mutant: the running maximum is not shifted
    LET acc == running_max(seqs)
        expected == acc[Len(seqs)] + 1
    IN  [expected   |-> expected,
         lost       |-> expected - Unique(seqs),
         duplicates |-> Len(seqs) - Unique(seqs),
         reorders   |-> Cardinality({i \in 1 .. (Len(seqs) - 1) : seqs[i] < acc[i]})]
loss_summary(seqs) ==
    IF seqs = <<>>
    THEN [expected |-> 0, lost |-> 0, duplicates |-> 0, reorders |-> 0]
    ELSE LET acc == running_max(seqs)
             expected == acc[Len(seqs)] + 1
         IN  [expected   |-> expected,
              lost       |-> expected - Unique(seqs),
              duplicates |-> Len(seqs) - Unique(seqs),
              reorders   |-> Cardinality({i \in 2 .. Len(seqs) : seqs[i] < acc[i - 1]})]
=============================================================================
