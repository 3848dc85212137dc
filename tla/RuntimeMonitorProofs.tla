------------------------ MODULE RuntimeMonitorProofs ------------------------
(***************************************************************************)
(* What RuntimeMonitor says of the vector-table monitor, proved for every  *)
(* table, every step budget and every width of the counters.  A portion of *)
(* the table is a loop over as many entries as the budget allows: what it  *)
(* reads is proved by induction on the entries done.                       *)
(***************************************************************************)
EXTENDS RuntimeMonitor, WellFoundedInduction, TLAPS, SequenceTheorems

-----------------------------------------------------------------------------
(* Induction, from the order of the naturals being well founded.           *)

\* Every nonempty set of naturals has a least member.
LEMMA LeastElement ==
  ASSUME NEW T, T \subseteq Nat, T # {}
  PROVE  \E x \in T : \A y \in T : x <= y
<1>. DEFINE R == OpToRel(<, Nat)
<1>1. IsWellFoundedOn(R, Nat)
  BY NatLessThanWellFounded, Zenon
<1>2. \A x, y \in Nat : <<y, x>> \in R <=> y < x
  BY DEF OpToRel
<1>. HIDE DEF R
<1>3. PICK x \in T : \A y \in T : ~ (<<y, x>> \in R)
  BY <1>1, WFMin, Zenon
<1>4. \A y \in T : x \in Nat /\ y \in Nat /\ ~(y < x)
  BY <1>2, <1>3, Zenon
<1>5. \A y \in T : x <= y
  BY <1>4
<1>. QED  BY <1>5

\* A set that has 0, and n + 1 whenever it has n, has every natural.
LEMMA SetInduction ==
  ASSUME NEW S, 0 \in S, \A n \in Nat : n \in S => n + 1 \in S
  PROVE  Nat \subseteq S
<1>. DEFINE T == Nat \ S
<1>. SUFFICES ASSUME T # {} PROVE FALSE
  OBVIOUS
<1>1. PICK x \in T : \A y \in T : x <= y
  <2>1. T \subseteq Nat
    OBVIOUS
  <2>. HIDE DEF T
  <2>. QED  BY <2>1, LeastElement, Zenon
<1>2. x \in Nat /\ x # 0 /\ x \notin S
  OBVIOUS
<1>3. x - 1 \in Nat /\ x - 1 + 1 = x
  BY <1>2
<1>4. x - 1 \in T
  BY <1>2, <1>3
<1>. QED  BY <1>1, <1>2, <1>3, <1>4

\* g is what F makes of v in 0, 1, ..., n rounds.
Rounds(g, F, v, n) == g[0] = v /\ \A k \in 1..n : g[k] = F[g[k - 1]]

Iterates(V, F, v, n) == \E g \in [0..n -> V] : Rounds(g, F, v, n)

\* A function can be applied any number of times over.
LEMMA Iterated ==
  ASSUME NEW V, NEW F \in [V -> V], NEW v \in V, NEW N \in Nat
  PROVE  Iterates(V, F, v, N)
<1>. DEFINE S == {n \in Nat : Iterates(V, F, v, n)}
<1>1. Iterates(V, F, v, 0)
  <2>. DEFINE g == [i \in 0..0 |-> v]
  <2>1. g \in [0..0 -> V] /\ Rounds(g, F, v, 0)
    BY DEF Rounds
  <2>. QED  BY <2>1 DEF Iterates
<1>2. ASSUME NEW n \in Nat, Iterates(V, F, v, n) PROVE Iterates(V, F, v, n + 1)
  <2>1. PICK g \in [0..n -> V] : Rounds(g, F, v, n)
    BY <1>2 DEF Iterates
  <2>. DEFINE h == [i \in 0..(n + 1) |-> IF i = n + 1 THEN F[g[n]] ELSE g[i]]
  <2>2. h \in [0..(n + 1) -> V]
    BY <2>1
  <2>3. Rounds(h, F, v, n + 1)
    BY <2>1 DEF Rounds
  <2>. QED  BY <2>2, <2>3 DEF Iterates
<1>3. 0 \in S /\ \A n \in Nat : n \in S => n + 1 \in S
  BY <1>1, <1>2
<1>. HIDE DEF S
<1>4. Nat \subseteq S
  BY <1>3, SetInduction
<1>. QED  BY <1>4 DEF S

-----------------------------------------------------------------------------
(* What a check of VTOR or of one entry can find.                          *)

\* The statuses of a failed check of a valid configuration.
Findings == Statuses \ {"UNINITIALIZED", PASS, "BASELINE_UNAVAILABLE"}

\* validate_vtor passes the expected value only, and names what else it finds.
LEMMA VtorChecked ==
  ASSUME NEW v \in VtorValues
  PROVE  /\ validate_vtor(v) = PASS <=> v = "expected"
         /\ validate_vtor(v) # PASS => validate_vtor(v) \in Findings
<1>1. CASE v = "misaligned"
  BY <1>1 DEF validate_vtor, PASS, Findings, Statuses
<1>2. CASE v = "other"
  BY <1>2 DEF validate_vtor, PASS, Findings, Statuses
<1>3. CASE v = "expected"
  BY <1>3 DEF validate_vtor, PASS, Findings, Statuses
<1>. QED  BY <1>1, <1>2, <1>3 DEF VtorValues

\* validate_entry passes an entry or says what is wrong with it.
LEMMA EntryChecked ==
  ASSUME NEW i \in Indices, NEW o \in EntryValues
  PROVE  validate_entry(i, o) # PASS => validate_entry(i, o) \in Findings
<1>1. validate_reserved(o) \in {PASS, "ENTRY_CHANGED"}
  BY DEF validate_reserved
<1>2. validate_msp(o) \in {PASS, "ENTRY_CHANGED", "INITIAL_MSP_INVALID"}
  BY DEF validate_msp, EntryValues
<1>3. validate_handler(o) \in {PASS, "ENTRY_CHANGED", "HANDLER_RANGE_FAILURE", "THUMB_BIT_FAILURE"}
  BY DEF validate_handler, EntryValues
<1>4. entry_kinds[i] \in {"INITIAL_MSP", "HANDLER", "RESERVED"}
  BY MonitorAssumption
<1>5. validate_entry(i, o) \in {validate_reserved(o), validate_msp(o), validate_handler(o)}
  BY <1>4 DEF validate_entry
<1>6. {"ENTRY_CHANGED", "INITIAL_MSP_INVALID", "HANDLER_RANGE_FAILURE", "THUMB_BIT_FAILURE"}
        \subseteq Findings
  BY DEF Findings, Statuses, PASS
<1>. HIDE DEF PASS, Findings
<1>. QED  BY <1>1, <1>2, <1>3, <1>5, <1>6

-----------------------------------------------------------------------------
(* One entry of a portion, and the portion.                                *)

\* A saturating counter stays within its width and counts a first event.
LEMMA Saturates ==
  ASSUME NEW n \in 0..COUNTER_MAX
  PROVE  /\ rsm_saturating_increment(n) \in 0..COUNTER_MAX
         /\ rsm_saturating_increment(0) = 1
BY MonitorAssumption DEF rsm_saturating_increment

\* What a check of a valid configuration leaves behind: a latched failure has
\* been counted once and is described; without one the status is PASS.
Settled(m) ==
  /\ m.available
  /\ m.latched_failure => m.failure_count = 1 /\ m.status \in Findings
  /\ ~m.latched_failure => m.failure_count = 0 /\ m.status = PASS

\* Recording a failure keeps the place in the table and settles the monitor.
LEMMA Recorded ==
  ASSUME NEW m \in Monitors, NEW s \in Findings, NEW i \in Indices \cup {NONE},
         m.available, m.failure_count = IF m.latched_failure THEN 1 ELSE 0
  PROVE  /\ record_failure(m, s, i) \in Monitors
         /\ Settled(record_failure(m, s, i))
         /\ record_failure(m, s, i).latched_failure
         /\ record_failure(m, s, i).next_index = m.next_index
         /\ record_failure(m, s, i).status = s
         /\ record_failure(m, s, i).failure_count = 1
<1>. DEFINE r == record_failure(m, s, i)
            c == IF m.latched_failure THEN m.failure_count
                 ELSE rsm_saturating_increment(m.failure_count)
<1>1. m.failure_count \in 0..COUNTER_MAX /\ m.latched_failure \in BOOLEAN
  BY DEF Monitors
<1>2. c = 1
  BY <1>1, Saturates
<1>3. c \in 0..COUNTER_MAX
  BY <1>1, Saturates
<1>. HIDE DEF c
<1>4. r = [m EXCEPT !.failure_count = c, !.status = s, !.failing_index = i,
                    !.latched_failure = TRUE, !.current_cycle_failed = TRUE]
  BY DEF record_failure, c, Monitors
<1>5. s \in Statuses
  BY DEF Findings
<1>6. r \in Monitors
  BY <1>3, <1>4, <1>5, Zenon DEF Monitors
<1>7. /\ r.available = m.available /\ r.latched_failure = TRUE /\ r.failure_count = 1
      /\ r.status = s /\ r.next_index = m.next_index
  BY <1>2, <1>4, Zenon DEF Monitors
<1>. HIDE DEF r
<1>8. Settled(r)
  BY <1>7 DEF Settled
<1>. QED  BY <1>6, <1>7, <1>8 DEF r

\* The entry after n in the table, where it begins again after the last one.
Wrap(x) == IF x < ENTRY_COUNT THEN x ELSE x - ENTRY_COUNT

\* What the loop of rsm_vector_monitor_step does with one entry.
OneEntry(m, tbl) == finish_entry(check_entry(m, tbl, m.next_index))

\* The entry is read: the failure latches if it is wrong and stays latched if it
\* is not, also where the end of the table completes a cycle.
LEMMA EntryDone ==
  ASSUME NEW m \in Monitors, NEW tbl \in [Indices -> EntryValues], Settled(m)
  PROVE  /\ OneEntry(m, tbl) \in Monitors
         /\ Settled(OneEntry(m, tbl))
         /\ OneEntry(m, tbl).next_index = Wrap(m.next_index + 1)
         /\ OneEntry(m, tbl).latched_failure
              <=> m.latched_failure \/ m.next_index \in bad_entries(tbl)
<1>. DEFINE n == m.next_index
            c == check_entry(m, tbl, n)
<1>1. n \in Indices /\ tbl[n] \in EntryValues /\ m.failure_count \in 0..COUNTER_MAX
  BY DEF Monitors
<1>2. /\ c \in Monitors /\ Settled(c) /\ c.next_index = n
      /\ c.latched_failure <=> m.latched_failure \/ n \in bad_entries(tbl)
  <2>1. CASE validate_entry(n, tbl[n]) = PASS
    <3>1. c = m /\ n \notin bad_entries(tbl)
      BY <2>1 DEF check_entry, bad_entries
    <3>. QED  BY <3>1
  <2>2. CASE validate_entry(n, tbl[n]) # PASS
    <3>. DEFINE s == validate_entry(n, tbl[n])
    <3>1. c = record_failure(m, s, n) /\ n \in bad_entries(tbl)
      BY <1>1, <2>2 DEF check_entry, bad_entries
    <3>2. s \in Findings
      BY <1>1, <2>2, EntryChecked
    <3>3. m.available /\ m.failure_count = IF m.latched_failure THEN 1 ELSE 0
      BY DEF Settled, Monitors
    <3>. HIDE DEF s
    <3>. QED  BY <1>1, <3>1, <3>2, <3>3, Recorded
  <2>. QED  BY <2>1, <2>2
<1>. HIDE DEF c
<1>3. OneEntry(m, tbl) = finish_entry(c)
  BY DEF OneEntry, c
<1>4. c.check_count \in 0..COUNTER_MAX
  BY <1>2 DEF Monitors
<1>. DEFINE k == rsm_saturating_increment(c.check_count)
<1>5. k \in 0..COUNTER_MAX
  BY <1>4, Saturates
<1>. HIDE DEF k
<1>6. CASE n + 1 < ENTRY_COUNT
  <2>1. finish_entry(c) = [c EXCEPT !.next_index = n + 1]
    BY <1>2, <1>6 DEF finish_entry
  <2>2. n + 1 \in Indices /\ Wrap(n + 1) = n + 1
    BY <1>1, <1>6, MonitorAssumption DEF Indices, Wrap
  <2>3. finish_entry(c) \in Monitors /\ finish_entry(c).next_index = n + 1
    BY <1>2, <2>1, <2>2 DEF Monitors
  <2>4. Settled(finish_entry(c)) /\ finish_entry(c).latched_failure = c.latched_failure
    BY <1>2, <2>1 DEF Settled, Monitors
  <2>. QED  BY <1>2, <1>3, <2>2, <2>3, <2>4
<1>7. CASE ~(n + 1 < ENTRY_COUNT)
  <2>1. 0 \in Indices /\ Wrap(n + 1) = 0
    BY <1>1, <1>7, MonitorAssumption DEF Indices, Wrap
  <2>2. CASE c.current_cycle_failed
    <3>1. finish_entry(c) = [c EXCEPT !.check_count = k, !.next_index = 0,
                                      !.current_cycle_failed = FALSE]
      BY <1>2, <1>7, <2>2 DEF finish_entry, k, Monitors
    <3>2. finish_entry(c) \in Monitors /\ finish_entry(c).next_index = 0
      BY <1>2, <1>5, <2>1, <3>1, Zenon DEF Monitors
    <3>3. Settled(finish_entry(c)) /\ finish_entry(c).latched_failure = c.latched_failure
      BY <1>2, <3>1 DEF Settled, Monitors
    <3>. QED  BY <1>2, <1>3, <2>1, <3>2, <3>3
  <2>3. CASE ~c.current_cycle_failed
    <3>. DEFINE s == IF c.latched_failure THEN c.status ELSE PASS
    <3>1. s = c.status
      BY <1>2 DEF Settled, Monitors
    <3>. HIDE DEF s
    <3>2. finish_entry(c) = [c EXCEPT !.check_count = k, !.status = s, !.next_index = 0,
                                      !.current_cycle_failed = FALSE]
      BY <1>2, <1>7, <2>3 DEF finish_entry, record_successful_complete_check, k, s, Monitors
    <3>3. c.status \in Statuses
      BY <1>2 DEF Monitors
    <3>4. finish_entry(c) \in Monitors /\ finish_entry(c).next_index = 0
      BY <1>2, <1>5, <2>1, <3>1, <3>2, <3>3, Zenon DEF Monitors
    <3>5. Settled(finish_entry(c)) /\ finish_entry(c).latched_failure = c.latched_failure
      BY <1>2, <3>1, <3>2 DEF Settled, Monitors
    <3>. QED  BY <1>2, <1>3, <2>1, <3>4, <3>5
  <2>. QED  BY <2>2, <2>3
<1>. QED  BY <1>6, <1>7

\* A portion has at least one entry and no more than the table.
LEMMA PortionFits == Portion \in 1..ENTRY_COUNT
BY MonitorAssumption DEF Portion

\* The place in the table stays in the table, and goes on from where it was.
LEMMA Wrapped ==
  ASSUME NEW n \in Indices, NEW k \in 0..(ENTRY_COUNT - 1)
  PROVE  /\ Wrap(n + k) \in Indices
         /\ Wrap(Wrap(n + k) + 1) = Wrap(n + (k + 1))
BY MonitorAssumption DEF Wrap, Indices

\* Entry i is one of the first k entries from n on.
InWindow(n, k, i) == \E j \in 0..(k - 1) : Wrap(n + j) = i

\* The loop stops after k entries with the next k entries read.
PortionOf(r, m, tbl, k) ==
  /\ r \in Monitors
  /\ Settled(r)
  /\ r.next_index = Wrap(m.next_index + k)
  /\ r.latched_failure <=> m.latched_failure \/ \E i \in bad_entries(tbl) : InWindow(m.next_index, k, i)

\* One entry more.
LEMMA PortionGrows ==
  ASSUME NEW m \in Monitors, NEW tbl \in [Indices -> EntryValues],
         NEW k \in 0..(ENTRY_COUNT - 1), NEW r, PortionOf(r, m, tbl, k)
  PROVE  PortionOf(OneEntry(r, tbl), m, tbl, k + 1)
<1>. DEFINE n == m.next_index
            e == OneEntry(r, tbl)
<1>1. n \in Indices
  BY DEF Monitors
<1>2. /\ e \in Monitors /\ Settled(e) /\ e.next_index = Wrap(r.next_index + 1)
      /\ e.latched_failure <=> r.latched_failure \/ r.next_index \in bad_entries(tbl)
  BY EntryDone DEF PortionOf
<1>3. r.next_index = Wrap(n + k)
  BY DEF PortionOf
<1>4. e.next_index = Wrap(n + (k + 1))
  BY <1>1, <1>2, <1>3, Wrapped
<1>5. \A i : InWindow(n, k + 1, i) <=> InWindow(n, k, i) \/ Wrap(n + k) = i
  <2>1. \A j : j \in 0..((k + 1) - 1) <=> j \in 0..(k - 1) \/ j = k
    OBVIOUS
  <2>. QED  BY <2>1 DEF InWindow
<1>. HIDE DEF n, e
<1>6. e.latched_failure
        <=> m.latched_failure \/ \E i \in bad_entries(tbl) : InWindow(n, k + 1, i)
  BY <1>2, <1>3, <1>5 DEF PortionOf, n
<1>. QED  BY <1>2, <1>4, <1>6 DEF PortionOf, n, e

\* check_portion reads the next Portion entries, and no others.
LEMMA PortionRead ==
  ASSUME NEW m \in Monitors, NEW tbl \in [Indices -> EntryValues], Settled(m)
  PROVE  PortionOf(check_portion(m, tbl), m, tbl, Portion)
<1>. DEFINE after == CHOOSE g : g = [k \in 0..Portion |->
                       IF k = 0 THEN m
                       ELSE finish_entry(check_entry(g[k - 1], tbl, g[k - 1].next_index))]
            V == {x \in Monitors : Settled(x)}
            F == [x \in V |-> OneEntry(x, tbl)]
<1>1. check_portion(m, tbl) = after[Portion]
  BY DEF check_portion
<1>2. F \in [V -> V]
  BY EntryDone
<1>3. \A x \in V : F[x] = finish_entry(check_entry(x, tbl, x.next_index))
  BY DEF OneEntry
<1>4. m \in V
  OBVIOUS
<1>. HIDE DEF F, V
<1>5. PICK g \in [0..Portion -> V] : Rounds(g, F, m, Portion)
  BY <1>2, <1>4, PortionFits, Iterated DEF Iterates
<1>6. g = [k \in 0..Portion |->
             IF k = 0 THEN m
             ELSE finish_entry(check_entry(g[k - 1], tbl, g[k - 1].next_index))]
  <2>1. ASSUME NEW k \in 0..Portion
        PROVE  g[k] = IF k = 0 THEN m
                      ELSE finish_entry(check_entry(g[k - 1], tbl, g[k - 1].next_index))
    <3>1. CASE k = 0
      BY <1>5, <3>1 DEF Rounds
    <3>2. CASE k # 0
      <4>1. k \in 1..Portion /\ k - 1 \in 0..Portion
        BY <3>2, PortionFits
      <4>2. g[k] = F[g[k - 1]] /\ g[k - 1] \in V
        BY <1>5, <4>1 DEF Rounds
      <4>. QED  BY <1>3, <3>2, <4>2
    <3>. QED  BY <3>1, <3>2
  <2>. QED  BY <1>5, <2>1
<1>7. after = [k \in 0..Portion |->
                 IF k = 0 THEN m
                 ELSE finish_entry(check_entry(after[k - 1], tbl, after[k - 1].next_index))]
  BY <1>6, Zenon
<1>. HIDE DEF after
<1>. DEFINE S == {k \in Nat : k <= Portion => PortionOf(after[k], m, tbl, k)}
<1>8. 0 \in S
  <2>1. after[0] = m
    BY <1>7, PortionFits
  <2>2. m.next_index \in Indices
    BY DEF Monitors
  <2>3. Wrap(m.next_index + 0) = m.next_index
    BY <2>2, MonitorAssumption DEF Wrap, Indices
  <2>4. \A i : ~InWindow(m.next_index, 0, i)
    BY DEF InWindow
  <2>. QED  BY <2>1, <2>3, <2>4 DEF PortionOf
<1>9. ASSUME NEW k \in Nat, k \in S PROVE k + 1 \in S
  <2>. SUFFICES ASSUME k + 1 <= Portion PROVE PortionOf(after[k + 1], m, tbl, k + 1)
    OBVIOUS
  <2>1. k \in 0..(ENTRY_COUNT - 1) /\ k <= Portion /\ k + 1 \in 0..Portion
    BY PortionFits, MonitorAssumption
  <2>2. PortionOf(after[k], m, tbl, k)
    BY <1>9, <2>1
  <2>3. after[k + 1] = OneEntry(after[k], tbl)
    BY <1>7, <2>1 DEF OneEntry
  <2>. QED  BY <2>1, <2>2, <2>3, PortionGrows
<1>. HIDE DEF S
<1>10. Nat \subseteq S
  BY <1>8, <1>9, SetInduction
<1>11. PortionOf(after[Portion], m, tbl, Portion)
  BY <1>10, PortionFits DEF S
<1>. QED  BY <1>1, <1>11

\* The remainders by which the model names the entries read are their places.
LEMMA RemainderIsWrap ==
  ASSUME NEW n \in Indices, NEW k \in 0..(ENTRY_COUNT - 1)
  PROVE  (n + k) % ENTRY_COUNT = Wrap(n + k)
<1>1. CASE n + k < ENTRY_COUNT
  <2>1. n + k \in 0..(ENTRY_COUNT - 1)
    BY <1>1, MonitorAssumption DEF Indices
  <2>. QED  BY <1>1, <2>1, MonitorAssumption DEF Wrap
<1>2. CASE ~(n + k < ENTRY_COUNT)
  <2>1. n + k \in ENTRY_COUNT..(2 * ENTRY_COUNT - 1)
    BY <1>2, MonitorAssumption DEF Indices
  <2>. QED  BY <1>2, <2>1, MonitorAssumption DEF Wrap
<1>. QED  BY <1>1, <1>2

-----------------------------------------------------------------------------
(* The inductive invariant.                                                *)

\* In a running application with a valid configuration the monitor is settled,
\* has latched exactly what was read wrong, and has reported it once.
VerdictInv ==
  (phase = "running" /\ configured) =>
    /\ Settled(monitor)
    /\ monitor.latched_failure <=> bad_read
    /\ bad_read => health.automatic = "SECURITY_FAILURE"
    /\ vector_table_changes = IF bad_read THEN 1 ELSE 0

\* How many entries have been read since entry i was, when entry n is next.
Since(n, i) == IF i < n THEN n - 1 - i ELSE n - 1 - i + ENTRY_COUNT

\* While an entry is wrong and undetected, every check has read a portion of
\* other entries since it last came to this one.
RotationInv == \A i \in Indices : bad_for[i] * Portion <= Since(monitor.next_index, i)

\* The events logged are the start, a first passed cycle, and what was found.
EventsInv == (phase = "running" /\ configured) => Told(vector_cycle_pass_event_logged, bad_read)

\* Without a valid configuration nothing but that is said, once.
BaselineInv ==
  (phase = "running" /\ ~configured) =>
    /\ monitor.status = "BASELINE_UNAVAILABLE" /\ monitor.failure_count = 0
    /\ vector_table_changes = 1
    /\ events = log_vector_finding(<<>>, "BASELINE_UNAVAILABLE")

IInv == TypeOK /\ VerdictInv /\ RotationInv /\ EventsInv /\ BaselineInv

\* An entry outside the window is a portion further away after it.
LEMMA WindowPasses ==
  ASSUME NEW n \in Indices, NEW i \in Indices, ~InWindow(n, Portion, i)
  PROVE  Since(Wrap(n + Portion), i) = Since(n, i) + Portion
<1>. DEFINE d == IF n <= i THEN i - n ELSE i - n + ENTRY_COUNT
<1>1. d \in 0..(ENTRY_COUNT - 1) /\ Wrap(n + d) = i
  BY MonitorAssumption DEF Indices, Wrap
<1>2. d >= Portion
  <2>. SUFFICES ASSUME d < Portion PROVE FALSE
    BY <1>1, PortionFits, MonitorAssumption
  <2>1. d \in 0..(Portion - 1)
    BY <1>1, PortionFits, MonitorAssumption
  <2>. HIDE DEF d
  <2>. QED  BY <1>1, <2>1 DEF InWindow
<1>. QED  BY <1>2, PortionFits, MonitorAssumption DEF Since, Wrap, Indices

\* A wrong entry is less than a table away from being read again.
LEMMA SinceBounded ==
  ASSUME NEW n \in Indices, NEW i \in Indices
  PROVE  Since(n, i) \in 0..(ENTRY_COUNT - 1)
BY MonitorAssumption DEF Since, Indices

\* Portions that fit in less than a table are fewer than a cycle has.
LEMMA FewerThanACycle ==
  ASSUME NEW b \in Nat, b * Portion <= ENTRY_COUNT - 1
  PROVE  b < CyclePeriod
<1>1. CyclePeriod \in Nat /\ CyclePeriod * Portion >= ENTRY_COUNT
  BY PortionFits, MonitorAssumption DEF CyclePeriod
<1>2. b * Portion < CyclePeriod * Portion
  BY <1>1, PortionFits, MonitorAssumption
<1>. QED  BY <1>1, <1>2, PortionFits

\* bad_for counted from nothing satisfies the rotation wherever the monitor is.
LEMMA NothingCounted ==
  ASSUME NEW m \in Monitors
  PROVE  \A i \in Indices : [j \in Indices |-> 0][i] * Portion <= Since(m.next_index, i)
<1>. SUFFICES ASSUME NEW i \in Indices PROVE 0 * Portion <= Since(m.next_index, i)
  OBVIOUS
<1>1. m.next_index \in Indices
  BY DEF Monitors
<1>2. Since(m.next_index, i) \in 0..(ENTRY_COUNT - 1)
  BY <1>1, SinceBounded
<1>3. 0 * Portion = 0
  BY PortionFits
<1>. QED  BY <1>2, <1>3, MonitorAssumption

\* SECURITY_FAILURE has the highest priority, so nothing temporary hides it.
LEMMA NothingHidesIt ==
  ASSUME NEW h \in Healths, h.automatic = "SECURITY_FAILURE"
  PROVE  selected_state(h) = "SECURITY_FAILURE"
<1>1. h.temporary \in HealthStates
  BY DEF Healths
<1>2. state_priority("SECURITY_FAILURE") = 8
  BY DEF state_priority
<1>3. ASSUME NEW s \in HealthStates, s # "SECURITY_FAILURE" PROVE ~(state_priority(s) >= 8)
  BY <1>3 DEF state_priority, HealthStates
<1>. QED  BY <1>1, <1>2, <1>3 DEF selected_state

-----------------------------------------------------------------------------
(* The monitor's two entry points.                                         *)

\* The state of the monitor before its first check.
LEMMA FreshIsMonitor == fresh \in Monitors
BY MonitorAssumption DEF fresh, Monitors, Indices, Statuses, NONE

\* Without a valid configuration nothing is checked.
LEMMA Unavailable ==
  ASSUME NEW m \in Monitors
  PROVE  /\ mark_baseline_unavailable(m) \in Monitors
         /\ mark_baseline_unavailable(m).status = "BASELINE_UNAVAILABLE"
         /\ mark_baseline_unavailable(m).latched_failure
         /\ mark_baseline_unavailable(m).failure_count = 0
<1>. DEFINE r == reset_snapshot(m)
<1>1. 0 \in 0..COUNTER_MAX
  BY MonitorAssumption
<1>2. r \in Monitors /\ r.failure_count = 0
  BY <1>1, Zenon DEF reset_snapshot, Monitors, Statuses
<1>3. mark_baseline_unavailable(m)
        = [r EXCEPT !.status = "BASELINE_UNAVAILABLE", !.latched_failure = TRUE]
  BY DEF mark_baseline_unavailable
<1>. HIDE DEF r
<1>. QED  BY <1>2, <1>3, Zenon DEF Monitors, Statuses

\* rsm_vector_monitor_init latches exactly if VTOR or some entry is wrong, though
\* it stops at the first that is.
LEMMA InitChecks ==
  ASSUME NEW c \in BOOLEAN, NEW tbl \in [Indices -> EntryValues], NEW v \in VtorValues
  PROVE  /\ monitor_init(c, tbl, v) \in Monitors
         /\ ~c => /\ monitor_init(c, tbl, v).status = "BASELINE_UNAVAILABLE"
                  /\ monitor_init(c, tbl, v).failure_count = 0
         /\ c => /\ Settled(monitor_init(c, tbl, v))
                 /\ monitor_init(c, tbl, v).latched_failure
                      <=> v # "expected" \/ bad_entries(tbl) # {}
<1>. DEFINE r == monitor_init(c, tbl, v)
            m == [fresh EXCEPT !.available = TRUE]
<1>1. m \in Monitors /\ m.available /\ ~m.latched_failure /\ m.failure_count = 0
      /\ m.status = "UNINITIALIZED" /\ m.check_count = 0
  BY FreshIsMonitor, Zenon DEF fresh, Monitors
<1>2. m.failure_count = IF m.latched_failure THEN 1 ELSE 0
  BY <1>1
<1>3. CASE ~c
  BY <1>3, FreshIsMonitor, Unavailable DEF monitor_init
<1>4. CASE c /\ validate_vtor(v) # PASS
  <2>. DEFINE s == validate_vtor(v)
  <2>1. r = record_failure(m, s, NONE)
    BY <1>4 DEF monitor_init
  <2>2. s \in Findings /\ v # "expected"
    BY <1>4, VtorChecked
  <2>. HIDE DEF m, s, r
  <2>3. r \in Monitors /\ Settled(r) /\ r.latched_failure
    BY <1>1, <1>2, <2>1, <2>2, Recorded
  <2>. QED  BY <1>4, <2>2, <2>3, Zenon DEF r
<1>5. CASE c /\ validate_vtor(v) = PASS /\ bad_entries(tbl) # {}
  <2>. DEFINE i == first_bad(tbl)
              s == validate_entry(i, tbl[i])
  <2>1. r = [check_entry(m, tbl, i) EXCEPT !.next_index = (i + 1) % ENTRY_COUNT]
    BY <1>5 DEF monitor_init
  <2>2. i \in bad_entries(tbl)
    <3>1. bad_entries(tbl) \subseteq Nat
      BY DEF bad_entries, Indices
    <3>2. \E x \in bad_entries(tbl) : \A y \in bad_entries(tbl) : x <= y
      BY <1>5, <3>1, LeastElement
    <3>. QED  BY <3>2 DEF first_bad
  <2>3. i \in Indices /\ s # PASS /\ tbl[i] \in EntryValues
    BY <2>2 DEF bad_entries
  <2>4. s \in Findings
    BY <2>3, EntryChecked
  <2>5. check_entry(m, tbl, i) = record_failure(m, s, i)
    BY <2>3 DEF check_entry
  <2>6. (i + 1) % ENTRY_COUNT \in Indices
    BY <2>3, MonitorAssumption DEF Indices
  <2>. DEFINE e == record_failure(m, s, i)
              x == (i + 1) % ENTRY_COUNT
  <2>. HIDE DEF m, s, i, r
  <2>7. e \in Monitors /\ Settled(e) /\ e.latched_failure
    BY <1>1, <1>2, <2>3, <2>4, Recorded
  <2>8. r = [e EXCEPT !.next_index = x]
    BY <2>1, <2>5
  <2>. HIDE DEF e, x
  <2>9. x \in Indices
    BY <2>6 DEF x
  <2>10. r \in Monitors /\ r.latched_failure
    BY <2>7, <2>8, <2>9 DEF Monitors
  <2>11. Settled(r)
    BY <2>7, <2>8 DEF Settled, Monitors
  <2>. QED  BY <1>5, <2>10, <2>11, Zenon DEF r
<1>6. CASE c /\ validate_vtor(v) = PASS /\ bad_entries(tbl) = {}
  <2>1. r = record_successful_complete_check(m)
    BY <1>6 DEF monitor_init
  <2>2. r = [m EXCEPT !.check_count = 1, !.status = PASS]
    <3>1. rsm_saturating_increment(m.check_count) = 1
      BY <1>1, Saturates, MonitorAssumption
    <3>. HIDE DEF m
    <3>. QED  BY <1>1, <2>1, <3>1, Zenon DEF record_successful_complete_check, Monitors
  <2>3. PASS \in Statuses /\ 1 \in 0..COUNTER_MAX
    BY MonitorAssumption DEF Statuses
  <2>. HIDE DEF m, r
  <2>4. r \in Monitors /\ ~r.latched_failure
    BY <1>1, <2>2, <2>3, Zenon DEF Monitors
  <2>5. Settled(r)
    BY <1>1, <2>2 DEF Settled, Monitors
  <2>6. v = "expected"
    BY <1>6, VtorChecked
  <2>. QED  BY <1>6, <2>4, <2>5, <2>6, Zenon DEF r
<1>. QED  BY <1>3, <1>4, <1>5, <1>6

\* rsm_vector_monitor_step latches exactly if VTOR or an entry of the portion is
\* wrong; only a wrong VTOR keeps it from going on in the table.
LEMMA StepChecks ==
  ASSUME NEW c \in BOOLEAN, NEW tbl \in [Indices -> EntryValues], NEW v \in VtorValues,
         NEW m \in Monitors, c => Settled(m)
  PROVE  /\ monitor_step(m, c, tbl, v) \in Monitors
         /\ ~c => /\ monitor_step(m, c, tbl, v).status = "BASELINE_UNAVAILABLE"
                  /\ monitor_step(m, c, tbl, v).latched_failure
                  /\ monitor_step(m, c, tbl, v).failure_count = 0
         /\ c => Settled(monitor_step(m, c, tbl, v))
         /\ c /\ v # "expected" => monitor_step(m, c, tbl, v).latched_failure
         /\ c /\ v = "expected" => PortionOf(monitor_step(m, c, tbl, v), m, tbl, Portion)
<1>. DEFINE r == monitor_step(m, c, tbl, v)
            a == [m EXCEPT !.available = TRUE]
<1>1. CASE ~c
  BY <1>1, Unavailable DEF monitor_step
<1>2. CASE c
  <2>1. a = m
    BY <1>2 DEF Settled, Monitors
  <2>2. CASE v # "expected"
    <3>. DEFINE s == validate_vtor(v)
    <3>1. s # PASS /\ s \in Findings
      BY <2>2, VtorChecked
    <3>2. r = record_failure(a, s, NONE)
      BY <1>2, <3>1 DEF monitor_step
    <3>3. m.available /\ m.failure_count = IF m.latched_failure THEN 1 ELSE 0
      BY <1>2 DEF Settled, Monitors
    <3>. HIDE DEF a, s, r
    <3>4. r \in Monitors /\ Settled(r) /\ r.latched_failure
      BY <2>1, <3>1, <3>2, <3>3, Recorded, Zenon
    <3>. QED  BY <1>2, <2>2, <3>4, Zenon DEF r
  <2>3. CASE v = "expected"
    <3>1. validate_vtor(v) = PASS
      BY <2>3, VtorChecked
    <3>2. r = check_portion(m, tbl)
      BY <1>2, <2>1, <3>1, Zenon DEF monitor_step
    <3>3. PortionOf(r, m, tbl, Portion)
      BY <1>2, <3>2, PortionRead, Zenon
    <3>4. r \in Monitors /\ Settled(r)
      BY <3>3 DEF PortionOf
    <3>. QED  BY <1>2, <2>3, <3>3, <3>4, Zenon
  <2>. QED  BY <2>2, <2>3
<1>. QED  BY <1>1, <1>2

-----------------------------------------------------------------------------
(* The health state.                                                       *)

\* set_state, the finding of the monitor and the console's commands make health
\* states of health states, and take none of them away from SECURITY_FAILURE.
LEMMA FindingShown ==
  ASSUME NEW h \in Healths, NEW m \in Monitors, NEW finding \in BOOLEAN
  PROVE  /\ failure_health(h, m, finding) \in Healths
         /\ finding /\ m.status \in Findings
              => failure_health(h, m, finding).automatic = "SECURITY_FAILURE"
         /\ h.automatic = "SECURITY_FAILURE" /\ m.status \in Findings
              => failure_health(h, m, finding).automatic = "SECURITY_FAILURE"
<1>1. report_security_failure(h) \in Healths
      /\ report_security_failure(h).automatic = "SECURITY_FAILURE"
  BY DEF report_security_failure, Healths, HealthStates
<1>2. set_state(h, "DEGRADED") \in Healths
  BY DEF set_state, Healths, HealthStates
<1>3. m.status \in Statuses
  BY DEF Monitors
<1>4. apply_vector_health_state(h, m.status)
        \in {set_state(h, "DEGRADED"), h, report_security_failure(h)}
  BY Zenon DEF apply_vector_health_state
<1>5. m.status \in Findings => apply_vector_health_state(h, m.status) = report_security_failure(h)
  BY <1>3, Zenon DEF apply_vector_health_state, Findings, PASS
<1>6. CASE finding
  <2>1. failure_health(h, m, finding) = apply_vector_health_state(h, m.status)
    BY <1>6 DEF failure_health
  <2>2. failure_health(h, m, finding) \in Healths
    BY <1>1, <1>2, <1>4, <2>1
  <2>. QED  BY <1>1, <1>5, <2>1, <2>2
<1>7. CASE ~finding
  BY <1>7 DEF failure_health
<1>. QED  BY <1>6, <1>7

\* The tick of the main loop only counts the temporary state down.
LEMMA Ticked ==
  ASSUME NEW h \in Healths
  PROVE  service_tick(h) \in Healths /\ service_tick(h).automatic = h.automatic
<1>. DEFINE t == IF h.ticks > 0 THEN h.ticks - 1 ELSE 0
<1>1. t \in 0..TEMPORARY_TICKS
  BY PlatformAssumption DEF Healths
<1>2. service_tick(h) = [h EXCEPT !.ticks = t]
  BY DEF service_tick, Healths
<1>. HIDE DEF t
<1>. QED  BY <1>1, <1>2 DEF Healths

\* No console command takes the platform out of SECURITY_FAILURE.
LEMMA Commanded ==
  ASSUME NEW h \in Healths, NEW command \in Commands
  PROVE  /\ dispatch_command(command, h) \in Healths
         /\ h.automatic = "SECURITY_FAILURE"
              => dispatch_command(command, h).automatic = "SECURITY_FAILURE"
<1>1. stop_temporary(h) \in Healths /\ stop_temporary(h).automatic = h.automatic
  BY PlatformAssumption DEF stop_temporary, Healths
<1>2. /\ acknowledge(h) \in Healths
      /\ h.automatic = "SECURITY_FAILURE" => acknowledge(h).automatic = "SECURITY_FAILURE"
  <2>. DEFINE a == IF h.automatic = "DEGRADED" THEN "HEALTHY" ELSE h.automatic
              g == [h EXCEPT !.automatic = a]
  <2>1. a \in HealthStates /\ (h.automatic = "SECURITY_FAILURE" => a = "SECURITY_FAILURE")
    BY DEF Healths, HealthStates
  <2>. HIDE DEF a
  <2>2. g \in Healths /\ g.automatic = a
    BY <2>1 DEF Healths
  <2>3. acknowledge(h) = [g EXCEPT !.ticks = 0]
    BY DEF acknowledge, stop_temporary, a, Healths
  <2>. HIDE DEF g
  <2>4. acknowledge(h) \in Healths /\ acknowledge(h).automatic = a
    BY <2>2, <2>3, PlatformAssumption DEF Healths
  <2>. QED  BY <2>1, <2>4
<1>3. ASSUME NEW s \in TestStates
      PROVE  start_led_test(h, s) \in Healths /\ start_led_test(h, s).automatic = h.automatic
  <2>1. s \in HealthStates /\ TEMPORARY_TICKS \in 0..TEMPORARY_TICKS
    BY PlatformAssumption
  <2>. QED  BY <2>1, Zenon DEF start_led_test, Healths
<1>4. CASE command = "none"
  <2>1. "none" \notin TestStates
    BY PlatformAssumption DEF HealthStates
  <2>2. dispatch_command(command, h) = h
    BY <1>4, <2>1, Zenon DEF dispatch_command
  <2>. QED  BY <2>2
<1>5. CASE command \in {"health acknowledge", "led test stop", "fault clear"}
  <2>1. command \notin TestStates
    BY <1>5, PlatformAssumption, Zenon DEF HealthStates
  <2>2. dispatch_command(command, h) \in {acknowledge(h), h, stop_temporary(h)}
    <3>1. CASE command = "health acknowledge"
      BY <2>1, <3>1, Zenon DEF dispatch_command
    <3>2. CASE command = "led test stop"
      BY <2>1, <3>2, Zenon DEF dispatch_command
    <3>3. CASE command = "fault clear"
      <4>1. dispatch_command(command, h) = IF RESTRICTED THEN acknowledge(h) ELSE h
        BY <2>1, <3>3, Zenon DEF dispatch_command
      <4>. QED  BY <4>1
    <3>. QED  BY <1>5, <3>1, <3>2, <3>3, Zenon
  <2>. QED  BY <1>1, <1>2, <2>2
<1>6. CASE command \in TestStates
  <2>1. command \notin {"none", "health acknowledge", "led test stop", "fault clear"}
    BY <1>6, PlatformAssumption, Zenon DEF HealthStates
  <2>2. dispatch_command(command, h) = start_led_test(h, command)
    BY <1>6, <2>1, Zenon DEF dispatch_command
  <2>. QED  BY <1>3, <1>6, <2>2
<1>. QED  BY <1>4, <1>5, <1>6, Zenon DEF Commands

\* What the boot policy decides is a health state.
LEMMA PolicyApplied ==
  ASSUME NEW w \in BOOLEAN, NEW f \in BOOLEAN, NEW t \in BOOLEAN
  PROVE  apply_boot_policy(health_init, evaluate_boot_policy(w, f, t)) \in Healths
<1>1. evaluate_boot_policy(w, f, t) \in HealthStates
  BY DEF evaluate_boot_policy, HealthStates
<1>2. health_init \in Healths
  BY PlatformAssumption DEF health_init, Healths, HealthStates
<1>. QED  BY <1>1, <1>2 DEF apply_boot_policy, Healths

-----------------------------------------------------------------------------
(* The events.                                                             *)

\* What log_vector_finding logs is an event, and for a failed check of a valid
\* configuration one of severity ERROR or CRITICAL.
LEMMA FindingLogged ==
  ASSUME NEW s \in Statuses
  PROVE  /\ finding_event(s) \in Events
         /\ s \in Findings => finding_event(s) \in FindingEvents
<1>1. vector_event_for_status(s) \in Statuses
  BY DEF vector_event_for_status, Statuses
<1>2. /\ vector_severity_for_status(s) \in {"WARNING", "ERROR", "CRITICAL"}
      /\ s \in Findings => vector_severity_for_status(s) \in {"ERROR", "CRITICAL"}
  <2>1. CASE s \in {"ENTRY_CHANGED", "VTOR_MISMATCH"}
    BY <2>1 DEF vector_severity_for_status
  <2>2. CASE s \in {"INITIAL_MSP_INVALID", "HANDLER_RANGE_FAILURE", "THUMB_BIT_FAILURE",
                   "ALIGNMENT_FAILURE"}
    BY <2>2 DEF vector_severity_for_status
  <2>3. CASE s \in {"UNINITIALIZED", PASS, "BASELINE_UNAVAILABLE"}
    BY <2>3 DEF vector_severity_for_status, Findings, PASS
  <2>. QED  BY <2>1, <2>2, <2>3 DEF Statuses
<1>. QED  BY <1>1, <1>2 DEF finding_event, Events, FindingEvents

\* The two events of a monitor that found nothing wrong.
LEMMA CleanEvents == Initialized \in Events /\ FullCyclePassed \in Events
BY DEF Initialized, FullCyclePassed, Events

\* A first event, or a second, appended.
LEMMA Appending ==
  ASSUME NEW a \in Events, NEW b \in Events
  PROVE  Append(<<>>, a) = <<a>> /\ Append(<<a>>, b) = <<a, b>>
<1>1. Append(<<>>, a) = <<a>>
  OBVIOUS
<1>2. <<a>> \in Seq(Events) /\ Len(<<a>>) = 1 /\ <<a>>[1] = a
  OBVIOUS
<1>3. Append(<<a>>, b) \in Seq(Events) /\ <<a, b>> \in Seq(Events)
  BY <1>2
<1>4. Len(Append(<<a>>, b)) = 2 /\ Len(<<a, b>>) = 2
  BY <1>2
<1>5. \A i \in 1..2 : Append(<<a>>, b)[i] = <<a, b>>[i]
  BY <1>2
<1>. QED  BY <1>1, <1>3, <1>4, <1>5, SeqEqual, Zenon

\* What a check of a valid configuration publishes as passed is not latched.
LEMMA PassedIsClean ==
  ASSUME NEW m \in Monitors, Settled(m)
  PROVE  vector_check_passed(m) <=> ~m.latched_failure
BY DEF vector_check_passed, Settled, Findings, Monitors

-----------------------------------------------------------------------------
(* The invariant holds at reset and every step keeps it.                   *)

\* The state at power-on.
LEMMA InitInv == Init => IInv
<1>. SUFFICES ASSUME Init PROVE IInv
  OBVIOUS
<1>1. table \in [Indices -> EntryValues]
  BY DEF Init, EntryValues
<1>2. health \in Healths
  BY PlatformAssumption DEF Init, health_init, Healths, HealthStates
<1>3. TypeOK
  <2>1. monitor \in Monitors
    BY FreshIsMonitor DEF Init
  <2>2. bad_for \in [Indices -> Nat] /\ vector_table_changes \in 0..COUNTER_MAX
    BY MonitorAssumption DEF Init
  <2>3. vtor \in VtorValues /\ phase \in {"reset", "running", "halted"}
        /\ configured \in BOOLEAN /\ fault_valid \in BOOLEAN /\ bad_read \in BOOLEAN
        /\ vector_cycle_pass_event_logged \in BOOLEAN
    BY Zenon DEF Init, VtorValues
  <2>4. events \in Seq(Events)
    BY DEF Init
  <2>. QED  BY <1>1, <1>2, <2>1, <2>2, <2>3, <2>4, Zenon DEF TypeOK
<1>4. VerdictInv /\ EventsInv /\ BaselineInv
  BY DEF Init, VerdictInv, EventsInv, BaselineInv
<1>5. RotationInv
  <2>1. \A i \in Indices : [j \in Indices |-> 0][i] * Portion <= Since(monitor.next_index, i)
    BY <1>3, NothingCounted DEF TypeOK
  <2>. QED  BY <2>1 DEF Init, RotationInv
<1>. QED  BY <1>3, <1>4, <1>5 DEF IInv

\* platform_init: the full check of the table and what it sets off.
LEMMA BootInv ==
  ASSUME IInv, NEW w \in BOOLEAN, NEW t \in BOOLEAN, Boot(w, t)
  PROVE  IInv'
<1>. DEFINE h == apply_boot_policy(health_init, evaluate_boot_policy(w, fault_valid, t))
            finding == ~vector_check_passed(monitor')
<1>1. configured \in BOOLEAN /\ table \in [Indices -> EntryValues] /\ vtor \in VtorValues
      /\ fault_valid \in BOOLEAN
  BY DEF IInv, TypeOK
<1>2. monitor' = monitor_init(configured, table, vtor)
  BY DEF Boot
<1>3. monitor' \in Monitors
  BY <1>1, <1>2, InitChecks
<1>4. h \in Healths
  BY <1>1, PolicyApplied
<1>5. health' = failure_health(h, monitor', finding)
  BY DEF Boot
<1>6. vector_table_changes' = failure_changes(0, finding)
  BY DEF Boot
<1>7. 0 \in 0..COUNTER_MAX
  BY MonitorAssumption
<1>8. rsm_saturating_increment(0) \in 0..COUNTER_MAX /\ rsm_saturating_increment(0) = 1
  BY <1>7, Saturates
<1>9. bad_read' = (configured /\ (vtor # "expected" \/ bad_entries(table) # {}))
  BY DEF Boot
<1>10. bad_for' = [i \in Indices |-> 0]
  BY DEF Boot
<1>11. phase' = "running" /\ UNCHANGED <<configured, table, vtor, fault_valid>>
  BY DEF Boot
<1>16. finding_event(monitor'.status) \in Events
       /\ (monitor'.status \in Findings => finding_event(monitor'.status) \in FindingEvents)
  <2>1. monitor'.status \in Statuses
    BY <1>3 DEF Monitors
  <2>. QED  BY <2>1, FindingLogged, Zenon
<1>15. /\ events' = IF finding THEN <<finding_event(monitor'.status)>> ELSE <<Initialized>>
       /\ vector_cycle_pass_event_logged' = FALSE
  <2>1. finding_event(monitor'.status) \in Events
    BY <1>16
  <2>. QED  BY <2>1, Appending DEF Boot, init_events, log_vector_finding
<1>. HIDE DEF h
<1>12. TypeOK'
  <2>1. health' \in Healths
    BY <1>3, <1>4, <1>5, FindingShown, Zenon
  <2>2. vector_table_changes' \in 0..COUNTER_MAX
    BY <1>6, <1>7, <1>8 DEF failure_changes
  <2>3. bad_read' \in BOOLEAN
    BY <1>9
  <2>4. bad_for' \in [Indices -> Nat]
    BY <1>10
  <2>5. events' \in Seq(Events) /\ vector_cycle_pass_event_logged' \in BOOLEAN
    <3>1. <<finding_event(monitor'.status)>> \in Seq(Events)
      BY <1>16
    <3>2. <<Initialized>> \in Seq(Events)
      BY CleanEvents
    <3>. QED  BY <1>15, <3>1, <3>2, Zenon
  <2>. QED  BY <1>1, <1>3, <1>11, <2>1, <2>2, <2>3, <2>4, <2>5, Zenon DEF TypeOK
<1>13. VerdictInv'
  <2>. SUFFICES ASSUME configured
       PROVE  /\ Settled(monitor')
              /\ monitor'.latched_failure <=> bad_read'
              /\ bad_read' => health'.automatic = "SECURITY_FAILURE"
              /\ vector_table_changes' = IF bad_read' THEN 1 ELSE 0
    BY <1>11 DEF VerdictInv
  <2>1. Settled(monitor') /\ (monitor'.latched_failure <=> bad_read')
    BY <1>1, <1>2, <1>9, InitChecks, Zenon
  <2>2. finding <=> bad_read'
    BY <1>3, <2>1, PassedIsClean
  <2>3. bad_read' => monitor'.status \in Findings
    BY <2>1, Zenon DEF Settled
  <2>4. bad_read' => health'.automatic = "SECURITY_FAILURE"
    BY <1>3, <1>4, <1>5, <2>2, <2>3, FindingShown, Zenon
  <2>5. vector_table_changes' = IF bad_read' THEN 1 ELSE 0
    BY <1>6, <1>8, <2>2, Zenon DEF failure_changes
  <2>. QED  BY <2>1, <2>4, <2>5
<1>14. RotationInv'
  <2>1. \A i \in Indices : [j \in Indices |-> 0][i] * Portion <= Since(monitor'.next_index, i)
    BY <1>3, NothingCounted, Zenon
  <2>. QED  BY <1>10, <2>1 DEF RotationInv
<1>17. EventsInv'
  <2>. SUFFICES ASSUME configured
       PROVE  IF bad_read' THEN \E e \in FindingEvents : events' = <<e>>
              ELSE events' = <<Initialized>>
    BY <1>11, <1>15, Zenon DEF EventsInv, Told
  <2>1. Settled(monitor') /\ (monitor'.latched_failure <=> bad_read')
    BY <1>1, <1>2, <1>9, InitChecks, Zenon
  <2>2. finding <=> bad_read'
    BY <1>3, <2>1, PassedIsClean
  <2>3. bad_read' => monitor'.status \in Findings
    BY <2>1 DEF Settled
  <2>. QED  BY <1>15, <1>16, <2>2, <2>3
<1>18. BaselineInv'
  <2>. SUFFICES ASSUME ~configured
       PROVE  /\ monitor'.status = "BASELINE_UNAVAILABLE" /\ monitor'.failure_count = 0
              /\ vector_table_changes' = 1
              /\ events' = <<finding_event("BASELINE_UNAVAILABLE")>>
    <3>1. finding_event("BASELINE_UNAVAILABLE") \in Events
      BY FindingLogged DEF Statuses
    <3>. QED  BY <1>11, <3>1, Appending DEF BaselineInv, log_vector_finding
  <2>1. monitor'.status = "BASELINE_UNAVAILABLE" /\ monitor'.failure_count = 0
    BY <1>1, <1>2, InitChecks, Zenon
  <2>2. finding
    BY <2>1 DEF vector_check_passed, PASS
  <2>. QED  BY <1>6, <1>8, <1>15, <2>1, <2>2 DEF failure_changes
<1>. QED  BY <1>12, <1>13, <1>14, <1>17, <1>18, Zenon DEF IInv

\* The entries a turn of the loop reads are those of the monitor's portion.
LEMMA ReadIsWindow ==
  ASSUME IInv, vtor = "expected", configured
  PROVE  \A i \in Indices : i \in entries_read <=> InWindow(monitor.next_index, Portion, i)
<1>. DEFINE n == monitor.next_index
<1>1. n \in Indices /\ vtor \in VtorValues
  BY DEF IInv, TypeOK, Monitors
<1>2. validate_vtor(vtor) = PASS
  BY <1>1, VtorChecked
<1>3. entries_read = {(n + k) % ENTRY_COUNT : k \in 0..(Portion - 1)}
  BY <1>2 DEF entries_read
<1>4. \A k \in 0..(Portion - 1) : k \in 0..(ENTRY_COUNT - 1)
  BY PortionFits, MonitorAssumption
<1>. HIDE DEF n
<1>5. \A k \in 0..(Portion - 1) : (n + k) % ENTRY_COUNT = Wrap(n + k)
  BY <1>1, <1>4, RemainderIsWrap
<1>6. entries_read = {Wrap(n + k) : k \in 0..(Portion - 1)}
  BY <1>3, <1>5, Zenon
<1>. QED  BY <1>6 DEF InWindow, n

\* platform_idle: the tick, the portion, what a finding sets off, the command.
LEMMA IdleInv ==
  ASSUME IInv, NEW command \in Commands, Idle(command)
  PROVE  IInv'
<1>. DEFINE n == monitor.next_index
            tick == service_tick(health)
            finding == is_new_finding(monitor, monitor')
            shown == failure_health(tick, monitor', finding)
            told == vector_cycle_pass_event_logged
            passed == first_cycle_passed(monitor, monitor', told)
            e == finding_event(monitor'.status)
<1>1. /\ configured \in BOOLEAN /\ table \in [Indices -> EntryValues] /\ vtor \in VtorValues
      /\ fault_valid \in BOOLEAN /\ monitor \in Monitors /\ health \in Healths
      /\ bad_read \in BOOLEAN /\ bad_for \in [Indices -> Nat] /\ n \in Indices
      /\ vector_table_changes \in 0..COUNTER_MAX
      /\ events \in Seq(Events) /\ told \in BOOLEAN
  BY DEF IInv, TypeOK, Monitors
<1>2. phase = "running" /\ UNCHANGED <<phase, configured, table, vtor>>
  BY Zenon DEF Idle
<1>3. monitor' = monitor_step(monitor, configured, table, vtor)
  BY Zenon DEF Idle
<1>4. configured => /\ Settled(monitor) /\ (monitor.latched_failure <=> bad_read)
                    /\ (bad_read => health.automatic = "SECURITY_FAILURE")
                    /\ vector_table_changes = IF bad_read THEN 1 ELSE 0
  BY <1>2 DEF IInv, VerdictInv
<1>5. /\ monitor' \in Monitors
      /\ configured => Settled(monitor')
      /\ configured /\ vtor # "expected" => monitor'.latched_failure
      /\ configured /\ vtor = "expected" => PortionOf(monitor', monitor, table, Portion)
      /\ ~configured => /\ monitor'.status = "BASELINE_UNAVAILABLE"
                        /\ monitor'.latched_failure /\ monitor'.failure_count = 0
  BY <1>1, <1>3, <1>4, StepChecks
<1>6. /\ vector_table_changes' = failure_changes(vector_table_changes, finding)
      /\ health' = dispatch_command(command, shown)
  BY Zenon DEF Idle
<1>17. /\ events' = periodic_events(events, monitor', finding, passed)
       /\ vector_cycle_pass_event_logged' = (told \/ passed)
  BY Zenon DEF Idle
<1>7. finding \in BOOLEAN
  BY DEF is_new_finding
<1>18. /\ finding /\ ~passed => events' = Append(events, e)
       /\ ~finding /\ passed => events' = Append(events, FullCyclePassed)
       /\ ~finding /\ ~passed => events' = events
       /\ finding /\ passed => events' = Append(Append(events, e), FullCyclePassed)
  BY <1>17, Zenon DEF periodic_events, finding_events, log_vector_finding
<1>19. /\ passed \in BOOLEAN
       /\ passed => ~told /\ ~monitor'.latched_failure
  BY <1>1 DEF first_cycle_passed
<1>20. /\ e \in Events
       /\ monitor'.status \in Findings => e \in FindingEvents
  <2>1. monitor'.status \in Statuses
    BY <1>5 DEF Monitors
  <2>. QED  BY <2>1, FindingLogged
<1>8. tick \in Healths /\ tick.automatic = health.automatic
  BY <1>1, Ticked, Zenon
<1>. HIDE DEF tick, finding, passed, e
<1>9. /\ shown \in Healths
      /\ finding /\ monitor'.status \in Findings => shown.automatic = "SECURITY_FAILURE"
      /\ tick.automatic = "SECURITY_FAILURE" /\ monitor'.status \in Findings
           => shown.automatic = "SECURITY_FAILURE"
  BY <1>5, <1>7, <1>8, FindingShown
<1>. HIDE DEF shown
<1>10. /\ health' \in Healths
       /\ shown.automatic = "SECURITY_FAILURE" => health'.automatic = "SECURITY_FAILURE"
  BY <1>6, <1>9, Commanded
<1>11. bad_read' = (bad_read \/ read_something_wrong)
  BY Zenon DEF Idle, Remember
<1>12. bad_for' = [i \in Indices |->
         IF ~configured \/ monitor'.latched_failure \/ i \notin bad_entries(table) THEN 0
         ELSE bad_for[i] + 1]
  BY Zenon DEF Idle, Remember
<1>13. TypeOK'
  <2>1. vector_table_changes' \in 0..COUNTER_MAX
    BY <1>1, <1>6, Saturates DEF failure_changes
  <2>2. bad_read' \in BOOLEAN
    BY <1>11
  <2>3. bad_for' \in [Indices -> Nat]
    BY <1>1, <1>12
  <2>4. fault_valid' \in BOOLEAN
    BY Zenon DEF Idle
  <2>5. events' \in Seq(Events)
    <3>1. Append(events, e) \in Seq(Events) /\ Append(events, FullCyclePassed) \in Seq(Events)
          /\ Append(Append(events, e), FullCyclePassed) \in Seq(Events)
      BY <1>1, <1>20, CleanEvents
    <3>. QED  BY <1>1, <1>7, <1>18, <1>19, <3>1, Zenon
  <2>6. vector_cycle_pass_event_logged' \in BOOLEAN
    BY <1>17
  <2>. QED  BY <1>1, <1>2, <1>5, <1>10, <2>1, <2>2, <2>3, <2>4, <2>5, <2>6, Zenon DEF TypeOK
<1>14. configured => /\ monitor'.latched_failure <=> bad_read'
                     /\ monitor.latched_failure => monitor'.latched_failure
  <2>. SUFFICES ASSUME configured
       PROVE  /\ monitor'.latched_failure <=> bad_read'
              /\ monitor.latched_failure => monitor'.latched_failure
    OBVIOUS
  <2>1. CASE vtor # "expected"
    <3>1. read_something_wrong
      BY <1>1, <2>1, VtorChecked, Zenon DEF read_something_wrong
    <3>. QED  BY <1>5, <1>11, <2>1, <3>1, Zenon
  <2>2. CASE vtor = "expected"
    <3>1. validate_vtor(vtor) = PASS
      BY <1>1, <2>2, VtorChecked
    <3>2. bad_entries(table) \subseteq Indices
      BY DEF bad_entries
    <3>3. read_something_wrong <=> \E i \in bad_entries(table) : InWindow(n, Portion, i)
      BY <2>2, <3>1, <3>2, ReadIsWindow, Zenon DEF read_something_wrong
    <3>4. monitor'.latched_failure
            <=> monitor.latched_failure \/ \E i \in bad_entries(table) : InWindow(n, Portion, i)
      BY <1>5, <2>2 DEF PortionOf
    <3>. QED  BY <1>4, <1>11, <3>3, <3>4, Zenon
  <2>. QED  BY <2>1, <2>2
<1>15. VerdictInv'
  <2>. SUFFICES ASSUME configured
       PROVE  /\ Settled(monitor')
              /\ monitor'.latched_failure <=> bad_read'
              /\ bad_read' => health'.automatic = "SECURITY_FAILURE"
              /\ vector_table_changes' = IF bad_read' THEN 1 ELSE 0
    BY <1>2 DEF VerdictInv
  <2>1. finding <=> bad_read' /\ ~bad_read
    BY <1>1, <1>4, <1>5, <1>14 DEF finding, is_new_finding, Settled, Monitors
  <2>2. bad_read' => monitor'.status \in Findings
    BY <1>5, <1>14 DEF Settled
  <2>3. bad_read' => health'.automatic = "SECURITY_FAILURE"
    BY <1>4, <1>8, <1>9, <1>10, <2>1, <2>2, Zenon
  <2>4. vector_table_changes' = IF bad_read' THEN 1 ELSE 0
    BY <1>1, <1>4, <1>6, <1>11, <2>1, Saturates DEF failure_changes
  <2>. QED  BY <1>5, <1>14, <2>3, <2>4, Zenon
<1>16. RotationInv'
  <2>. SUFFICES ASSUME NEW i \in Indices
       PROVE  bad_for'[i] * Portion <= Since(monitor'.next_index, i)
    BY DEF RotationInv
  <2>1. monitor'.next_index \in Indices
    BY <1>5, Zenon DEF Monitors
  <2>2. Since(monitor'.next_index, i) \in 0..(ENTRY_COUNT - 1)
    BY <2>1, SinceBounded
  <2>3. CASE ~configured \/ monitor'.latched_failure \/ i \notin bad_entries(table)
    <3>1. bad_for'[i] = 0
      BY <1>12, <2>3
    <3>. QED  BY <2>2, <3>1, PortionFits, MonitorAssumption
  <2>4. CASE configured /\ ~monitor'.latched_failure /\ i \in bad_entries(table)
    <3>1. bad_for'[i] = bad_for[i] + 1 /\ bad_for[i] \in Nat
      BY <1>1, <1>12, <2>4
    <3>2. vtor = "expected" /\ PortionOf(monitor', monitor, table, Portion)
      BY <1>5, <2>4, Zenon
    <3>3. ~InWindow(n, Portion, i) /\ monitor'.next_index = Wrap(n + Portion)
      BY <2>4, <3>2 DEF PortionOf
    <3>4. Since(monitor'.next_index, i) = Since(n, i) + Portion
      BY <1>1, <3>3, WindowPasses, Zenon
    <3>5. bad_for[i] * Portion <= Since(n, i) /\ Since(n, i) \in Nat
      BY <1>1, SinceBounded, MonitorAssumption DEF IInv, RotationInv
    <3>6. (bad_for[i] + 1) * Portion = bad_for[i] * Portion + Portion
      BY <3>1, PortionFits
    <3>. QED  BY <3>1, <3>4, <3>5, <3>6, PortionFits
  <2>. QED  BY <2>3, <2>4
<1>21. EventsInv'
  <2>. SUFFICES ASSUME configured PROVE Told(vector_cycle_pass_event_logged, bad_read)'
    BY <1>2, Zenon DEF EventsInv
  <2>1. finding <=> bad_read' /\ ~bad_read
    BY <1>1, <1>4, <1>5, <1>14 DEF finding, is_new_finding, Settled, Monitors
  <2>2. bad_read' => monitor'.status \in Findings
    BY <1>5, <1>14 DEF Settled
  <2>3. Told(told, bad_read) /\ (bad_read => bad_read')
    BY <1>2, <1>11, Zenon DEF IInv, EventsInv
  <2>4. CASE finding
    <3>1. ~passed /\ ~bad_read /\ bad_read'
      BY <1>14, <1>19, <2>1, <2>4
    <3>2. events = IF told THEN <<Initialized, FullCyclePassed>> ELSE <<Initialized>>
      BY <2>3, <3>1, Zenon DEF Told
    <3>3. events' = Append(events, e) /\ e \in FindingEvents
          /\ vector_cycle_pass_event_logged' = told
      BY <1>1, <1>17, <1>18, <1>20, <2>2, <2>4, <3>1, Zenon
    <3>4. events' = Append(IF told THEN <<Initialized, FullCyclePassed>> ELSE <<Initialized>>, e)
      BY <3>2, <3>3, Zenon
    <3>. QED  BY <3>1, <3>3, <3>4, Zenon DEF Told
  <2>5. CASE ~finding /\ passed
    <3>1. ~told /\ ~bad_read /\ ~bad_read'
      BY <1>4, <1>14, <1>19, <2>3, <2>5, Zenon
    <3>2. events = <<Initialized>>
      BY <2>3, <3>1 DEF Told
    <3>3. events' = <<Initialized, FullCyclePassed>> /\ vector_cycle_pass_event_logged'
      BY <1>17, <1>18, <2>5, <3>2, Appending, CleanEvents, Zenon
    <3>. QED  BY <3>1, <3>3 DEF Told
  <2>6. CASE ~finding /\ ~passed
    <3>1. events' = events /\ vector_cycle_pass_event_logged' = told /\ bad_read' = bad_read
      BY <1>1, <1>11, <1>17, <1>18, <2>1, <2>3, <2>6, Zenon
    <3>. QED  BY <2>3, <3>1 DEF Told
  <2>. QED  BY <1>7, <1>19, <2>4, <2>5, <2>6
<1>22. BaselineInv'
  <2>. SUFFICES ASSUME ~configured
       PROVE  /\ monitor'.status = "BASELINE_UNAVAILABLE" /\ monitor'.failure_count = 0
              /\ vector_table_changes' = 1
              /\ events' = log_vector_finding(<<>>, "BASELINE_UNAVAILABLE")
    BY <1>2 DEF BaselineInv
  <2>1. /\ monitor.failure_count = 0 /\ vector_table_changes = 1
        /\ events = log_vector_finding(<<>>, "BASELINE_UNAVAILABLE")
    BY <1>2 DEF IInv, BaselineInv
  <2>2. ~finding /\ ~passed
    BY <1>5, <1>19, <2>1, Zenon DEF finding, is_new_finding
  <2>3. vector_table_changes' = 1
    BY <1>6, <2>1, <2>2 DEF failure_changes
  <2>. QED  BY <1>5, <1>18, <2>1, <2>2, <2>3
<1>. QED  BY <1>13, <1>15, <1>16, <1>21, <1>22 DEF IInv

\* A fault handler stops the loop and leaves the monitor as it is.
LEMMA FaultInv ==
  ASSUME IInv, Fault
  PROVE  IInv'
<1>1. TypeOK'
  BY DEF IInv, TypeOK, Fault, history, logged
<1>2. VerdictInv' /\ EventsInv' /\ BaselineInv'
  BY Zenon DEF VerdictInv, EventsInv, BaselineInv, Fault
<1>3. RotationInv'
  BY DEF IInv, RotationInv, Fault, history
<1>. QED  BY <1>1, <1>2, <1>3, Zenon DEF IInv

\* A reset forgets the verdict and the count with it.
LEMMA ResetInv ==
  ASSUME IInv, Reset
  PROVE  IInv'
<1>1. TypeOK'
  <2>1. monitor' \in Monitors
    BY FreshIsMonitor DEF Reset
  <2>2. health' \in Healths
    BY PlatformAssumption DEF Reset, health_init, Healths, HealthStates
  <2>3. bad_for' \in [Indices -> Nat] /\ vector_table_changes' \in 0..COUNTER_MAX
    BY MonitorAssumption DEF Reset
  <2>4. vtor' \in VtorValues /\ phase' \in {"reset", "running", "halted"}
        /\ fault_valid' \in BOOLEAN /\ bad_read' \in BOOLEAN
        /\ configured' \in BOOLEAN /\ table' \in [Indices -> EntryValues]
        /\ vector_cycle_pass_event_logged' \in BOOLEAN
    BY Zenon DEF IInv, TypeOK, Reset, VtorValues
  <2>5. events' \in Seq(Events)
    BY DEF Reset
  <2>. QED  BY <2>1, <2>2, <2>3, <2>4, <2>5, Zenon DEF TypeOK
<1>2. VerdictInv' /\ EventsInv' /\ BaselineInv'
  BY DEF VerdictInv, EventsInv, BaselineInv, Reset
<1>3. RotationInv'
  <2>1. monitor' \in Monitors /\ bad_for' = [j \in Indices |-> 0]
    BY FreshIsMonitor DEF Reset
  <2>2. \A i \in Indices : [j \in Indices |-> 0][i] * Portion <= Since(monitor'.next_index, i)
    BY <2>1, NothingCounted
  <2>. QED  BY <2>1, <2>2 DEF RotationInv
<1>. QED  BY <1>1, <1>2, <1>3 DEF IInv

\* What goes wrong in memory is no step of the monitor.
LEMMA DisturbInv ==
  ASSUME IInv, (\E i \in Indices : DisturbEntry(i)) \/ DisturbVtor
  PROVE  IInv'
<1>1. UNCHANGED <<phase, configured, monitor, vector_table_changes, health, fault_valid,
                  bad_read, bad_for, events, vector_cycle_pass_event_logged>>
  BY DEF DisturbEntry, DisturbVtor, history, logged
<1>2. table' \in [Indices -> EntryValues] /\ vtor' \in VtorValues
  <2>1. table \in [Indices -> EntryValues] /\ vtor \in VtorValues
    BY Zenon DEF IInv, TypeOK
  <2>2. CASE \E i \in Indices : DisturbEntry(i)
    <3>1. PICK i \in Indices : DisturbEntry(i)
      BY <2>2
    <3>2. BadValues[i] \cup {IF entry_kinds[i] = "RESERVED" THEN "zero" ELSE "expected"}
            \subseteq EntryValues
      BY PlatformAssumption DEF EntryValues
    <3>3. PICK v \in EntryValues : table' = [table EXCEPT ![i] = v]
      BY <3>1, <3>2, Zenon DEF DisturbEntry
    <3>. QED  BY <2>1, <3>1, <3>3 DEF DisturbEntry
  <2>3. CASE DisturbVtor
    BY <2>1, <2>3, PlatformAssumption, Zenon DEF DisturbVtor, VtorValues
  <2>. QED  BY <2>2, <2>3
<1>3. TypeOK'
  BY <1>1, <1>2 DEF IInv, TypeOK
<1>4. VerdictInv' /\ BaselineInv'
  BY <1>1, Zenon DEF IInv, VerdictInv, BaselineInv
<1>5. RotationInv'
  BY <1>1 DEF IInv, RotationInv
<1>6. EventsInv'
  BY <1>1 DEF IInv, EventsInv, Told
<1>. QED  BY <1>3, <1>4, <1>5, <1>6, Zenon DEF IInv

-----------------------------------------------------------------------------
\* The inductive invariant holds in every state of the application, for every
\* table, budget and counter width.
THEOREM MonitorInvariant == Spec => []IInv
<1>1. IInv /\ [Next]_vars => IInv'
  <2>. SUFFICES ASSUME IInv, [Next]_vars PROVE IInv'
    OBVIOUS
  <2>1. CASE \E w, t \in BOOLEAN : Boot(w, t)
    BY <2>1, BootInv
  <2>2. CASE \E command \in Commands : Idle(command)
    BY <2>2, IdleInv
  <2>3. CASE Fault
    BY <2>3, FaultInv
  <2>4. CASE Reset
    BY <2>4, ResetInv
  <2>5. CASE (\E i \in Indices : DisturbEntry(i)) \/ DisturbVtor
    BY <2>5, DisturbInv, Zenon
  <2>6. CASE UNCHANGED vars
    <3>1. TypeOK'
      BY <2>6, Zenon DEF IInv, TypeOK, vars
    <3>2. VerdictInv' /\ BaselineInv'
      BY <2>6 DEF IInv, VerdictInv, BaselineInv, vars
    <3>3. RotationInv'
      BY <2>6 DEF IInv, RotationInv, vars
    <3>4. EventsInv'
      BY <2>6 DEF IInv, EventsInv, Told, vars
    <3>. QED  BY <3>1, <3>2, <3>3, <3>4, Zenon DEF IInv
  <2>. QED  BY <2>1, <2>2, <2>3, <2>4, <2>5, <2>6 DEF Next
<1>. QED  BY <1>1, InitInv, PTL DEF Spec

\* What "rsm status" prints, the health state, security_counters and the events
\* logged say exactly what the checks of this boot have read.
THEOREM MonitorVerdictIsReadings == Spec => []VerdictIsReadings
<1>1. IInv => VerdictIsReadings
  <2>. SUFFICES ASSUME IInv, phase = "running" PROVE VerdictIsReadings
    BY Zenon DEF VerdictIsReadings
  <2>1. health \in Healths /\ monitor \in Monitors
    BY Zenon DEF IInv, TypeOK
  <2>. DEFINE printed == print_vector_public_status
  <2>2. /\ printed.vector_status = public_status(monitor)
        /\ printed.vector_failure_class = rsm_vector_failure_class_name(monitor.status)
        /\ printed.vector_failure_count = monitor.failure_count
        /\ printed.vector_latched_failure = IF monitor.latched_failure THEN "yes" ELSE "no"
        /\ printed.health_state = selected_state(health)
        /\ runtime_monitor_get_evidence.vector_check_passed = vector_check_passed(monitor)
    BY Zenon DEF print_vector_public_status, runtime_monitor_get_evidence
  <2>. HIDE DEF printed
  <2>3. CASE configured
    <3>1. /\ Settled(monitor) /\ (monitor.latched_failure <=> bad_read)
          /\ (bad_read => health.automatic = "SECURITY_FAILURE")
          /\ vector_table_changes = IF bad_read THEN 1 ELSE 0
      BY <2>3 DEF IInv, VerdictInv
    <3>2. public_status(monitor) = IF bad_read THEN "fail" ELSE "pass"
      <4>1. monitor.available /\ monitor.status \notin {"UNINITIALIZED", "BASELINE_UNAVAILABLE"}
        BY <3>1 DEF Settled, Findings, PASS
      <4>2. public_status(monitor)
              = IF monitor.latched_failure \/ monitor.status # PASS THEN "fail" ELSE "pass"
        BY <4>1 DEF public_status
      <4>. QED  BY <3>1, <4>2 DEF Settled
    <3>3. rsm_vector_failure_class_name(monitor.status) = "none" <=> ~bad_read
      <4>1. CASE bad_read
        <5>1. monitor.status \in Findings
          BY <3>1, <4>1 DEF Settled
        <5>2. rsm_vector_failure_class_name(monitor.status) = monitor.status
          BY <5>1, Zenon DEF rsm_vector_failure_class_name, Findings
        <5>3. "none" \notin Findings
          BY DEF Findings, Statuses, PASS
        <5>. QED  BY <4>1, <5>1, <5>2, <5>3
      <4>2. CASE ~bad_read
        <5>1. monitor.status = PASS
          BY <3>1, <4>2, Zenon DEF Settled
        <5>. QED  BY <4>2, <5>1, Zenon DEF rsm_vector_failure_class_name, PASS
      <4>. QED  BY <4>1, <4>2, Zenon
    <3>4. bad_read => selected_state(health) = "SECURITY_FAILURE"
      BY <2>1, <3>1, NothingHidesIt
    <3>5. vector_check_passed(monitor) <=> ~bad_read
      BY <2>1, <3>1, PassedIsClean
    <3>6. monitor.failure_count = IF bad_read THEN 1 ELSE 0
      BY <3>1 DEF Settled
    <3>7. Told(vector_cycle_pass_event_logged, bad_read)
      BY <2>3, Zenon DEF IInv, EventsInv
    <3>. QED  BY <2>2, <2>3, <3>1, <3>2, <3>3, <3>4, <3>5, <3>6, <3>7, Zenon DEF VerdictIsReadings, printed
  <2>4. CASE ~configured
    <3>1. /\ monitor.status = "BASELINE_UNAVAILABLE" /\ vector_table_changes = 1
          /\ events = log_vector_finding(<<>>, "BASELINE_UNAVAILABLE")
      BY <2>4 DEF IInv, BaselineInv
    <3>2. public_status(monitor) = "unavailable"
      BY <3>1 DEF public_status
    <3>3. rsm_vector_failure_class_name(monitor.status) = "baseline_unavailable"
      BY <3>1, Zenon DEF rsm_vector_failure_class_name, PASS
    <3>. QED  BY <2>2, <2>4, <3>1, <3>2, <3>3 DEF VerdictIsReadings, printed
  <2>. QED  BY <2>3, <2>4, <2>1 DEF IInv, TypeOK
<1>. QED  BY <1>1, MonitorInvariant, PTL

\* A wrong entry is found within one cycle of portions (rsm_vector_monitor_step).
THEOREM MonitorDetectedInTime == Spec => []DetectedInTime
<1>1. IInv => DetectedInTime
  <2>. SUFFICES ASSUME IInv, NEW i \in Indices PROVE bad_for[i] < CyclePeriod
    BY DEF DetectedInTime
  <2>1. bad_for[i] \in Nat /\ monitor.next_index \in Indices
    BY DEF IInv, TypeOK, Monitors
  <2>2. bad_for[i] * Portion <= Since(monitor.next_index, i)
    BY Zenon DEF IInv, RotationInv
  <2>3. Since(monitor.next_index, i) \in 0..(ENTRY_COUNT - 1)
    BY <2>1, SinceBounded
  <2>4. bad_for[i] * Portion <= ENTRY_COUNT - 1
    BY <2>1, <2>2, <2>3, PortionFits, MonitorAssumption
  <2>. QED  BY <2>1, <2>4, FewerThanACycle
<1>. QED  BY <1>1, MonitorInvariant, PTL
=============================================================================
