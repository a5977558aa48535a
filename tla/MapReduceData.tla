--------------------------- MODULE MapReduceData ----------------------------
(***************************************************************************)
(* What the files of module MapReduce hold: the records that doMap writes  *)
(* and doReduce reads (src/mr/worker.go), for the applications wc and      *)
(* indexer, next to the sequential program (src/main/mrsequential.go) that *)
(* the tests compare the job's output with.                                *)
(*                                                                         *)
(* Words are numbers, in the order of their strings; a document is the     *)
(* index of its input file.  A record carries the place it comes from, so  *)
(* that a file of records is a set: doReduce sorts them by key before it   *)
(* looks at them, and sort.Sort is not stable.  An output file is the set  *)
(* of its lines.                                                           *)
(***************************************************************************)
EXTENDS MapReduce, Sequences, Functions

CONSTANTS
    Word,      \* words of the input
    Hash,      \* ihash, for these words
    Inputs     \* inputs: for each input file the sequence of its words

ASSUME WordAssumption == Word \subseteq Nat /\ Hash \in [Word -> Nat]
ASSUME InputsAssumption == \A input \in Inputs : input \in [0..NMap - 1 -> Seq(Word)]

Apps == {"wc", "indexer"}

-----------------------------------------------------------------------------
(* The applications *)

Record(key, value, doc, n) == [key |-> key, value |-> value, doc |-> doc, n |-> n]

\* wc has a record for each occurrence, indexer one for each word of the document.
WcMap(doc, words) == {Record(words[n], 1, doc, n) : n \in DOMAIN words}
IndexerMap(doc, words) == {Record(words[n], doc, doc, 0) : n \in DOMAIN words}
Map(app, doc, words) == IF app = "wc" THEN WcMap(doc, words) ELSE IndexerMap(doc, words)

\* sort.Strings
Count(s, x) == Cardinality({n \in DOMAIN s : s[n] = x})
Sorted(values) ==
    CHOOSE s \in [DOMAIN values -> Range(values)] :
        /\ \A m, n \in DOMAIN values : m < n => s[m] <= s[n]
        /\ \A x \in Range(values) : Count(s, x) = Count(values, x)

\* wc counts the records, indexer counts and lists the documents in order.
WcReduce(values) == <<Len(values)>>
IndexerReduce(values) == <<Len(values), Sorted(values)>>
Reduce(app, values) == IF app = "wc" THEN WcReduce(values) ELSE IndexerReduce(values)

-----------------------------------------------------------------------------
(* Workers *)

\* Faulty: the partition is chosen by the value.
PartitionByValue(recs, r) == {rec \in recs : rec.value % NReduce = r}

\* doMap: the records of partition r.
Partition(recs, r) == {rec \in recs : Hash[rec.key] % NReduce = r}

\* The contents of mr-i-r.
InterFile(app, input, i, r) == Partition(Map(app, i, input[i]), r)

\* What doReduce has read, and mrsequential's intermediate.
Gathered(app, input, r) == UNION {InterFile(app, input, i, r) : i \in 0..NMap - 1}
Intermediate(app, input) == UNION {Map(app, i, input[i]) : i \in 0..NMap - 1}

\* The records of a key, and their values in each order in which the sort may have
\* left them.
Of(recs, key) == {rec \in recs : rec.key = key}
Orders(recs) ==
    LET n == Cardinality(recs)
    IN  {[m \in 1..n |-> order[m].value] : order \in Bijection(1..n, recs)}

\* The loop over the sorted records: one line for each key.  Lines that differ with
\* the order of the values are all in the set.
Lines(app, recs) ==
    UNION {{<<key, Reduce(app, values)>> : values \in Orders(Of(recs, key))} :
             key \in {rec.key : rec \in recs}}

OutFile == [app \in Apps |-> [input \in Inputs |-> [r \in 0..NReduce - 1 |->
              Lines(app, Gathered(app, input, r))]]]

\* mrsequential's mr-out-0.
mrsequential == [app \in Apps |-> [input \in Inputs |-> Lines(app, Intermediate(app, input))]]

-----------------------------------------------------------------------------
\* Unless a running worker lost its task, the output files of a finished job hold
\* the lines of the sequential program, one for each key, whatever worker crashed
\* where, in whatever order the values of a key were sorted.  (Of a file that is not
\* complete nothing is known; its lines do not count.)
OutputIsSequential ==
    done /\ slow = 0 =>
      \A app \in Apps, input \in Inputs :
        LET files == {OutFile[app][input][r] : r \in {q \in 0..NReduce - 1 : out[q] = "complete"}}
        IN  /\ UNION files = mrsequential[app][input]
            /\ \A l1, l2 \in UNION files : l1[1] = l2[1] => l1 = l2
=============================================================================
