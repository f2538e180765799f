---------------------------- MODULE HuskylensBridge -----------------------------
(***************************************************************************)
(* The sensor bridge: lines of a HUSKYLENS camera become detections, which *)
(* are gathered in a buffer and written every few seconds as a product for *)
(* the data owner's mediator, in a file named after the second of writing. *)
(* Time is counted in ticks; a line may take a while to come, and a file   *)
(* to be written.                                                          *)
(***************************************************************************)
EXTENDS Naturals, Sequences, SequencesExt, FiniteSets, FiniteSetsExt

CONSTANTS
  Lines,              \* [form, label, confidence, numeric, dated]: what a camera may send
  MinConfidence,
  FlushInterval,      \* flush_interval_sec, in ticks
  Second,             \* the ticks of a second
  SlowWrite,          \* bound: the ticks that may pass between the look at the clock and the name
  MaxBatches,         \* max_batches; 0 for no end
  SamplesShown,       \* detections a product shows one by one
  MaxLines, MaxHuskyClock      \* bounds

ASSUME HuskyAssumption ==
  /\ \A l \in Lines : l.form \in {"blank", "json", "bad_json", "csv", "short_csv", "mock"}
  /\ {FlushInterval, Second, SlowWrite, SamplesShown} \subseteq Nat /\ 0 < Second
  /\ Second <= FlushInterval

VARIABLES
  huskyClock,
  state,        \* "running", "done", or "error" after a line or a write that raised
  buffer, started_at, last_flush, batches_written,
  products,     \* the output directory: second -> product
  received,     \* history: detections good enough, in order
  writes,       \* history: of each write its name, how long after the look at the clock (at) that
                \*          was taken (delay), and how many detections had been received (upto)
  lines         \* how many lines there have been

huskyVars == <<huskyClock, state, buffer, started_at, last_flush, batches_written, products, received, writes, lines>>

-----------------------------------------------------------------------------
\* No detection for a line that is blank, short or not JSON; a JSON confidence that is no number raises.
Raises(l) == l.form = "json" /\ ~l.numeric
parse_line_to_detection(l) ==
  IF l.form \in {"blank", "bad_json", "short_csv"} THEN {}
  ELSE {[label |-> l.label, dated |-> l.form = "json" /\ l.dated, ts |-> huskyClock,
         confidence |-> IF l.numeric THEN l.confidence ELSE 0]}

\* The text of a product: how many detections, how many of each label, the most frequent
\* label (of those the first), and the first few in full.
build_product_text(from, to, detections) ==
  LET count(l) == Cardinality({i \in DOMAIN detections : detections[i].label = l})
      by_label == [l \in {detections[i].label : i \in DOMAIN detections} |-> count(l)]
  IN  [window |-> <<from, to>>, total |-> Len(detections), by_label |-> by_label,
       top |-> {l \in DOMAIN by_label : \A k \in DOMAIN by_label : by_label[k] <= by_label[l]},
       max_confidence |-> FoldSet(LAMBDA i, m : IF detections[i].confidence > m THEN detections[i].confidence ELSE m,
                                  0, DOMAIN detections),
       samples |-> [i \in 1 .. (IF Len(detections) < SamplesShown THEN Len(detections) ELSE SamplesShown) |->
                      detections[i]]]

\* Mutant of write_product_file: all products of ten seconds have one name.
write_ten_second_file(product, now) ==
  products' = [s \in DOMAIN products \cup {now \div (10 * Second)} |->
                 IF s = now \div (10 * Second) THEN product ELSE products[s]]

\* A file of the same name is replaced.
write_product_file(product, now) ==
  products' = [s \in DOMAIN products \cup {now \div Second} |->
                 IF s = now \div Second THEN product ELSE products[s]]

\* A line or a write that raises ends the process, and the buffer with it.
HuskyEnds == /\ state' = "error" /\ buffer' = <<>>
             /\ UNCHANGED <<started_at, last_flush, batches_written, products, writes>>

\* The write of a buffer, d ticks after the look at the clock.
write_batch(buffered, d) ==
  /\ write_product_file(build_product_text(started_at, huskyClock, buffered), huskyClock + d)
  /\ writes' = Append(writes, [name |-> (huskyClock + d) \div Second, delay |-> d, at |-> huskyClock,
                               upto |-> Len(received')])
  /\ buffer' = <<>>
  /\ started_at' = huskyClock /\ last_flush' = huskyClock
  /\ batches_written' = batches_written + 1
  /\ state' = IF MaxBatches > 0 /\ batches_written + 1 >= MaxBatches THEN "done" ELSE state

\* run_bridge: the buffer is written when a line has come and the interval is over; without
\* lines nothing is.
run_bridge(l) ==
  LET good == {d \in parse_line_to_detection(l) : d.confidence >= MinConfidence}
      buffered == buffer \o SetToSeq(good)
      due == huskyClock - last_flush >= FlushInterval
  IN  /\ state = "running" /\ lines < MaxLines
      /\ lines' = lines + 1
      /\ IF Raises(l)
           THEN HuskyEnds /\ UNCHANGED <<huskyClock, received>>
           ELSE /\ received' = received \o SetToSeq(good)
                /\ \/ /\ ~due
                      /\ buffer' = buffered
                      /\ UNCHANGED <<huskyClock, state, started_at, last_flush, batches_written, products, writes>>
                   \/ due /\ \E d \in 0 .. SlowWrite :
                        /\ huskyClock' = huskyClock + d
                        /\ HuskyEnds \/ write_batch(buffered, d)

HuskyTick == /\ huskyClock < MaxHuskyClock
             /\ huskyClock' = huskyClock + 1
             /\ UNCHANGED <<state, buffer, started_at, last_flush, batches_written, products, received, writes, lines>>

HuskyInit ==
  /\ huskyClock = 0 /\ state = "running" /\ buffer = <<>> /\ started_at = 0 /\ last_flush = 0
  /\ batches_written = 0 /\ products = [s \in {} |-> <<>>] /\ received = <<>> /\ writes = <<>> /\ lines = 0

HuskyNext == HuskyTick \/ \E l \in Lines : run_bridge(l)
HuskySpec == HuskyInit /\ [][HuskyNext]_huskyVars

-----------------------------------------------------------------------------
Upto(n) == IF n = 0 THEN 0 ELSE writes[n].upto
At(n) == IF n = 0 THEN 0 ELSE writes[n].at

\* The detections the n-th write took; those since the last write; and whether the n-th name was
\* taken soon enough for the next one to be another.
Taken(n) == [i \in 1 .. Upto(n) - Upto(n - 1) |-> received[Upto(n - 1) + i]]
Waiting == [i \in 1 .. Len(received) - Upto(Len(writes)) |-> received[Upto(Len(writes)) + i]]
Quick(n) == writes[n].delay + Second <= FlushInterval

\* What a text tells of detections: their number, in all and of each label, and the first few.
Tells(text, dets) ==
  /\ text.total = Len(dets)
  /\ DOMAIN text.by_label = {dets[i].label : i \in DOMAIN dets}
  /\ \A l \in DOMAIN text.by_label : text.by_label[l] = Cardinality({i \in DOMAIN dets : dets[i].label = l})
  /\ \A i \in DOMAIN dets : i <= SamplesShown => i \in DOMAIN text.samples /\ text.samples[i] = dets[i]

\* Every detection received is in the window of one write or, unless the process ended by an error,
\* in the buffer; undated ones came within that window; and of a write whose name was taken at
\* most flush_interval_sec - 1 s after the look at the clock the file stays, with a name before all
\* later ones, and its text tells the window and what it took.  A slower write may lose its file to
\* the next one of the same second; with an interval of one second any delay does (run_bridge,
\* write_product_file).
ProductsTellAll ==
  /\ \A n \in DOMAIN writes :
       /\ \A i \in DOMAIN Taken(n) : ~Taken(n)[i].dated => At(n - 1) <= Taken(n)[i].ts /\ Taken(n)[i].ts <= At(n)
       /\ Quick(n) => /\ writes[n].name \in DOMAIN products
                      /\ products[writes[n].name].window = <<At(n - 1), At(n)>>
                      /\ Tells(products[writes[n].name], Taken(n))
                      /\ \A m \in DOMAIN writes : n < m => writes[n].name < writes[m].name
  /\ state # "error" => buffer = Waiting
=================================================================================
