------------------------------- MODULE Search -------------------------------
(***************************************************************************)
(* One call of the search tool: every domain is asked in turn, through its *)
(* index when it has one and line by line otherwise, and what is found is  *)
(* sorted and cut (src/search/server.py, src/search/indexer.py,            *)
(* src/indexer/__init__.py).  The files are written by others all the      *)
(* while: a hit names an entry of the file as it was indexed, and the line *)
(* is read later.                                                          *)
(*                                                                         *)
(* A line is a role and a sequence of words; a pattern is looked for among *)
(* the words, never inside one.  Regular expressions, transcripts (which   *)
(* have no index) and the lines of context are left out.  How the index is *)
(* kept is the subject of IndexStore, IndexCache and DafsaDaemon: here it  *)
(* is built in one step, and opening it may fail.                          *)
(***************************************************************************)
EXTENDS Integers, FiniteSets, Sequences, SequencesExt, FiniteSetsExt

CONSTANTS
    Domains,     \* the configured domains, in their order
    Layout,      \* Layout[d]: "dirs" (sessions) or "files"
    Files,       \* files, numbered in the order of their names
    DomainOf,    \* the domain of a file
    DateOf,      \* its date: of the session, or the one in its name
    Undated,     \* "?", greater than every date
    Lines,       \* the lines files are made of
    Queries,     \* the queries asked
    Lower(_),    \* a word without its case
    MaxResults,  \* max_results
    MaxPerFile,  \* max_matches_per_file
    Spread,      \* how many hits an index is asked for per result: 5 in the code
    MaxLines,    \* bound: lines in all files together
    MaxWrites    \* bound: changes to files

ASSUME SearchBounds ==
    /\ MaxResults \in Nat \ {0} /\ MaxPerFile \in Nat \ {0} /\ Spread \in Nat \ {0}
    /\ MaxLines \in Nat /\ MaxWrites \in Nat

ASSUME SearchFiles ==
    /\ Files \subseteq Nat /\ IsFiniteSet(Files)
    /\ Domains \in Seq(Range(Domains)) /\ DomainOf \in [Files -> Range(Domains)]
    /\ DateOf \in [Files -> Nat] /\ Undated \in Nat
    /\ \A f \in Files : DateOf[f] <= Undated

\* An empty query is answered before any domain is asked; one that is all
\* punctuation has no word to look for and is left out.
ASSUME SearchTexts ==
    /\ Lines \subseteq [role : STRING, text : Seq(STRING)]
    /\ \A q \in Queries : q.words \in Seq(STRING) \ {<<>>} /\ {q.any, q.exact} \subseteq BOOLEAN

VARIABLES
    there,    \* the files that exist
    text,     \* their lines
    index,    \* the index of each domain
    drift,    \* history: what became of a file since it was indexed
    pc,       \* "idle", "asking" or "done"
    query,    \* the query under way
    way,      \* how each domain has been searched
    todo,     \* hits or files the present domain has left
    cache,    \* files read for the present domain
    found,    \* all_matches
    answer,   \* what the caller gets
    unsure,   \* history: what became of a file behind this search's back
    tight,    \* history: an index had more hits than were asked for
    writes

searching == <<pc, query, way, todo, cache, found, answer, tight>>
vars == <<there, text, index, drift, unsure, writes, searching>>

Blank(l) == l.text = <<>>

\* The lines of a file without the blank ones.
WithLine(ls, l) == IF Blank(l) THEN ls ELSE Append(ls, l)
NonBlank(ls) ==
    LET kept[i \in 0..Len(ls)] == IF i = 0 THEN <<>> ELSE WithLine(kept[i - 1], ls[i])
    IN  kept[Len(ls)]

NoIndex == [built |-> FALSE, files |-> {}, keys |-> {}]
NoQuery == [words |-> <<>>]
InDomain(d) == {f \in Files : DomainOf[f] = d}
Fates == {"same", "grown", "rewritten"}
Worse(a, b) == IF "rewritten" \in {a, b} THEN "rewritten"
               ELSE IF "grown" \in {a, b} THEN "grown" ELSE "same"

\* Every line of every file, by file and place.
LinesOf(t) == {p \in Files \X (1..MaxLines) : p[2] <= Len(t[p[1]])}
Indexed == {[word |-> w, file |-> f, entry |-> e] :
              w \in UNION {{Lower(s) : s \in Range(l.text)} : l \in Lines},
              f \in Files, e \in 0..MaxLines}

TypeOK ==
    /\ there \subseteq Files
    /\ text \in [Files -> BoundedSeq(Lines, MaxLines)]
    /\ \A d \in Range(Domains) :
         /\ index[d].files \subseteq InDomain(d)
         /\ index[d].keys \subseteq Indexed
         /\ ~index[d].built => index[d] = NoIndex
    /\ drift \in [Files -> Fates]
    /\ unsure \in [Files -> Fates]
    /\ pc \in {"idle", "asking", "done"}
    /\ query \in Queries \cup {NoQuery}
    /\ way \in [Range(Domains) -> {"none", "fst", "scan"}]
    /\ DOMAIN cache \subseteq Files
    /\ \A m \in found : m.file \in Files /\ m.line \in 1..MaxLines /\ m.text \in Lines
    /\ answer \in {<<>>} \/ (Range(answer) \subseteq found /\ Len(answer) <= MaxResults)
    /\ tight \in BOOLEAN
    /\ writes \in 0..MaxWrites

Init ==
    /\ text \in {t \in [Files -> BoundedSeq(Lines, MaxLines)] :
                   Cardinality(LinesOf(t)) <= MaxLines}
    /\ there = {f \in Files : text[f] # <<>>}
    /\ index = [d \in Range(Domains) |-> NoIndex]
    /\ drift = [f \in Files |-> "rewritten"]
    /\ unsure = [f \in Files |-> "same"]
    /\ pc = "idle"
    /\ query = NoQuery
    /\ way = [d \in Range(Domains) |-> "none"]
    /\ todo = {} /\ cache = <<>> /\ found = {} /\ answer = <<>>
    /\ tight = FALSE
    /\ writes = 0

-----------------------------------------------------------------------------
(* The files, changed by their writers at any time.                        *)

\* What a change of f does to the histories.
Changes(f, fate) ==
    /\ writes < MaxWrites
    /\ writes' = writes + 1
    /\ drift' = [drift EXCEPT ![f] = Worse(@, fate)]
    /\ unsure' = IF pc # "idle" THEN [unsure EXCEPT ![f] = Worse(@, fate)] ELSE unsure
    /\ UNCHANGED <<index, searching>>

AddLine(f, l) ==
    /\ Cardinality(LinesOf(text)) < MaxLines
    /\ text' = [text EXCEPT ![f] = Append(@, l)]
    /\ there' = there \cup {f}
    /\ Changes(f, IF f \in there THEN "grown" ELSE "rewritten")

RemoveFile(f) ==
    /\ f \in there
    /\ there' = there \ {f}
    /\ text' = [text EXCEPT ![f] = <<>>]
    /\ Changes(f, "rewritten")

-----------------------------------------------------------------------------
(* The index.                                                              *)

\* extract_jsonl: the entries of a file are its lines, without the blank ones.
Entries(f) == NonBlank(text[f])

\* The composite keys of the words of the files' entries, counted from zero.
Keys(fs) ==
    UNION {UNION {{[word |-> Lower(s), file |-> f, entry |-> i - 1] : s \in Range(Entries(f)[i].text)} :
                    i \in DOMAIN Entries(f)} : f \in fs}

\* A full build; an update that has caught up leaves the same keys.
Build(d) ==
    LET fs == there \cap InDomain(d)
    IN  /\ index' = [index EXCEPT ![d] = [built |-> TRUE, files |-> fs, keys |-> Keys(fs)]]
        /\ drift' = [f \in Files |-> IF DomainOf[f] = d THEN "same" ELSE drift[f]]
        /\ UNCHANGED <<there, text, unsure, writes, searching>>

\* date_from_path: every file of a "dirs" domain has the same, dateless name.
IndexedDate(f) == IF Layout[DomainOf[f]] = "dirs" THEN Undated ELSE DateOf[f]

Limit == MaxResults * Spread
Before(j, k) == j.file < k.file \/ (j.file = k.file /\ j.entry < k.entry)
FirstOf(ks, n) == {k \in ks : Cardinality({j \in ks : Before(j, k)}) < n}
HitsOf(d, w) == {[file |-> k.file, entry |-> k.entry] : k \in {j \in index[d].keys : j.word = w}}

\* prefix_enum, in key order, stopped at the limit.
WordHits(d, w) == FirstOf(HitsOf(d, w), Limit)

QueryWords(q) == [i \in DOMAIN q.words |-> Lower(q.words[i])]

\* Mutant: the loop leaves after the first word.
FirstWordOnly(sets) == sets[1]

\* Mutant: a word without hits empties the answer, as for EveryWord.
NoneIfOneIsMissing(sets) == IF {} \in Range(sets) THEN {} ELSE UNION Range(sets)

\* The union of the words' hits, stopped once it has reached the limit.
AnyWord(sets) ==
    UNION {sets[i] : i \in {j \in DOMAIN sets :
                              Cardinality(UNION {sets[k] : k \in 1..(j - 1)}) < Limit}}

EveryWord(sets) == {h \in sets[1] : \A i \in DOMAIN sets : h \in sets[i]}

\* Index.search before its last cut.
IndexSearch(d, q) ==
    LET sets == [i \in DOMAIN q.words |-> WordHits(d, QueryWords(q)[i])]
    IN  IF q.any THEN AnyWord(sets) ELSE EveryWord(sets)

-----------------------------------------------------------------------------
(* The filters.                                                            *)

InRange(date, q) == date = Undated \/ (q.from <= date /\ date <= q.to)

\* The query's words stand in the line one after the other.
Phrase(line, q) ==
    LET Spelt(w) == IF q.exact THEN w ELSE Lower(w)
        n == Len(q.words)
    IN  \E i \in 0..(Len(line.text) - n) :
          \A j \in 1..n : Spelt(line.text[i + j]) = Spelt(q.words[j])

OfRole(f, line, q) ==
    Layout[DomainOf[f]] = "dirs" /\ q.role # "any" => line.role = q.role

FoundIn(f) == {m \in found : m.file = f}
FoundFor(d) == {m \in found : DomainOf[m.file] = d}

Match(f, n, date, line) == [file |-> f, line |-> n, date |-> date, text |-> line]

-----------------------------------------------------------------------------
(* The search.                                                             *)

Ask(q) ==
    /\ pc = "idle"
    /\ pc' = "asking"
    /\ query' = q
    /\ UNCHANGED <<there, text, index, drift, unsure, way, todo, cache, found, answer, tight, writes>>

\* The domain whose turn it is.
Turn(d) ==
    /\ pc = "asking" /\ todo = {} /\ way[d] = "none"
    /\ \A i, j \in DOMAIN Domains : Domains[j] = d /\ i < j => way[Domains[i]] # "none"
    /\ cache' = <<>>
    /\ UNCHANGED <<there, text, index, drift, found, answer, pc, query, writes>>

\* search_fst: any of the hits may be cut off, since the set has no order.
AskIndex(d) ==
    /\ Turn(d)
    /\ index[d].built
    /\ LET hits == IndexSearch(d, query)
       IN  todo' \in kSubset(IF Cardinality(hits) < Limit THEN Cardinality(hits) ELSE Limit, hits)
    /\ way' = [way EXCEPT ![d] = "fst"]
    /\ unsure' = [f \in Files |-> IF DomainOf[f] = d THEN Worse(unsure[f], drift[f]) ELSE unsure[f]]
    /\ LET all == {HitsOf(d, QueryWords(query)[i]) : i \in DOMAIN query.words}
       IN  tight' = (tight \/ \E s \in all \cup {UNION all} : Cardinality(s) > Limit)

\* No index, or none that could be opened and searched.
AskFiles(d) ==
    /\ Turn(d)
    /\ todo' = {[file |-> f] : f \in there \cap InDomain(d)}
    /\ way' = [way EXCEPT ![d] = "scan"]
    /\ UNCHANGED <<unsure, tight>>

Takes(t) ==
    /\ pc = "asking" /\ t \in todo
    /\ todo' = todo \ {t}
    /\ UNCHANGED <<there, text, index, drift, unsure, pc, query, way, answer, tight, writes>>

MaxCollect == IF Limit > MaxPerFile THEN Limit ELSE MaxPerFile

\* What lets _fst_results_to_matches look at a hit at all.
Wanted(h) ==
    /\ Cardinality(FoundFor(DomainOf[h.file])) < MaxCollect
    /\ InRange(IndexedDate(h.file), query)
    /\ h.file \in there
    /\ Cardinality(FoundIn(h.file)) < MaxPerFile

\* Mutant: the entry's number is taken as it is.
EntryAsLine(h) == h.entry

\* entry_idx is taken for a line number, counted from zero.
LineNo(h) == h.entry + 1

TakeHit(h) ==
    LET f == h.file
        ls == IF f \in DOMAIN cache THEN cache[f] ELSE text[f]
        n == LineNo(h)
    IN  /\ way[DomainOf[f]] = "fst"
        /\ Takes(h)
        /\ cache' = IF Wanted(h) THEN [g \in DOMAIN cache \cup {f} |-> IF g = f THEN ls ELSE cache[g]] ELSE cache
        /\ found' = IF Wanted(h) /\ n \in 1..Len(ls) /\ (query.exact => Phrase(ls[n], query))
                       /\ OfRole(f, ls[n], query)
                    THEN found \cup {Match(f, n, IndexedDate(f), ls[n])} ELSE found

\* _slow_scan_domain: a file's lines, without the blank ones.
Scanned(f) ==
    LET ls == NonBlank(text[f])
        hits == {n \in DOMAIN ls : Phrase(ls[n], query) /\ OfRole(f, ls[n], query)}
    IN  {Match(f, n, DateOf[f], ls[n]) : n \in
           {k \in hits : Cardinality({j \in hits : j < k}) < MaxPerFile}}

ScanFile(t) ==
    /\ way[DomainOf[t.file]] = "scan"
    /\ Takes(t)
    /\ found' = IF t.file \in there /\ InRange(DateOf[t.file], query)
                THEN found \cup Scanned(t.file) ELSE found
    /\ UNCHANGED cache

\* Newest first, then by line; equals stay in the order they were found in.
Sorted(ms) ==
    \A i, j \in DOMAIN ms : i < j =>
      ms[i].date > ms[j].date \/ (ms[i].date = ms[j].date /\ ms[i].line <= ms[j].line)

\* Mutant: everything found is returned.
NoCut(ms) == ms

Cut(ms) == IF Len(ms) > MaxResults THEN SubSeq(ms, 1, MaxResults) ELSE ms

\* Mutant: the cut comes before the sort.
CutFirst == {Cut(ms) : ms \in SetToSeqs(found)}

Answers == {Cut(ms) : ms \in {s \in SetToSeqs(found) : Sorted(s)}}

Asked == pc = "asking" /\ todo = {} /\ \A d \in Range(Domains) : way[d] # "none"

Finish ==
    /\ Asked
    /\ pc' = "done"
    /\ answer' \in Answers
    /\ UNCHANGED <<there, text, index, drift, unsure, query, way, todo, cache, found, tight, writes>>

Reply ==
    /\ pc = "done"
    /\ pc' = "idle" /\ query' = NoQuery
    /\ way' = [d \in Range(Domains) |-> "none"]
    /\ cache' = <<>> /\ found' = {} /\ answer' = <<>> /\ tight' = FALSE
    /\ unsure' = [f \in Files |-> "same"]
    /\ UNCHANGED <<there, text, index, drift, todo, writes>>

Next ==
    \/ \E f \in Files, l \in Lines : AddLine(f, l)
    \/ \E f \in Files : RemoveFile(f)
    \/ \E d \in Range(Domains) : Build(d)
    \/ \E q \in Queries : Ask(q)
    \/ \E d \in Range(Domains) : AskIndex(d) \/ AskFiles(d)
    \/ \E t \in todo : TakeHit(t) \/ ScanFile(t)
    \/ Finish
    \/ Reply

Spec == Init /\ [][Next]_vars

-----------------------------------------------------------------------------
(* Properties.                                                             *)

HasWord(line, w) == \E s \in Range(line.text) : Lower(s) = w

\* The line answers the query by its words, as an index is asked.
HasWords(line, q) ==
    LET ws == Range(QueryWords(q))
    IN  IF q.any THEN \E w \in ws : HasWord(line, w) ELSE \A w \in ws : HasWord(line, w)

Matches(f, line, q) ==
    /\ IF way[DomainOf[f]] = "fst"
       THEN HasWords(line, q) /\ (q.exact => Phrase(line, q))
       ELSE Phrase(line, q)
    /\ OfRole(f, line, q)

Plain(f) == \A i \in DOMAIN text[f] : ~Blank(text[f][i])

\* A hit found in the index before its file grew, and read after, shows a line
\* that answers the query: unless the file was replaced meanwhile, and as long
\* as it has no blank lines (server.py:1082-1127).
ShownLinesMatch ==
    \A m \in found : unsure[m.file] # "rewritten" /\ Plain(m.file) => Matches(m.file, m.text, query)

\* When no index held more hits than it was asked for, a file that nobody has
\* changed since it was indexed, or since the search began when it is read line
\* by line, gives every line that answers the query, up to its cap: in every
\* domain, whether it has an index or not (server.py:584-601, 1025-1156, 1203-1309).
NothingIsMissed ==
    Asked /\ ~tight =>
      \A f \in there :
        /\ unsure[f] = "same" /\ Plain(f)
        /\ InRange(IF way[DomainOf[f]] = "fst" THEN IndexedDate(f) ELSE DateOf[f], query)
        => LET all == {n \in DOMAIN text[f] : Matches(f, text[f][n], query)}
           IN  Cardinality(FoundIn(f)) =
                 IF Cardinality(all) < MaxPerFile THEN Cardinality(all) ELSE MaxPerFile

Unfiltered(q) == ~q.exact /\ q.role = "any" /\ \A f \in Files : InRange(DateOf[f], q)

\* However many hits the limits cut off, a query for any of its words is not left
\* without an answer when a line that nobody has touched since it was indexed has
\* one (indexer/__init__.py:768-793, server.py:1023-1027).
LimitsLeaveSomething ==
    Asked /\ query.any /\ Unfiltered(query) =>
      \A d \in Range(Domains) :
        /\ way[d] = "fst"
        /\ \A f \in InDomain(d) : unsure[f] = "same"
        /\ \E f \in there \cap InDomain(d) : \E i \in DOMAIN text[f] : HasWords(text[f][i], query)
        => FoundFor(d) # {}

\* The cut comes after the sort: nothing that was found and left out is newer than
\* what the caller gets, and the caller gets no line twice (server.py:613-616).
NewestAreKept ==
    pc = "done" =>
      /\ Len(answer) = IF Cardinality(found) < MaxResults THEN Cardinality(found) ELSE MaxResults
      /\ \A m \in found \ Range(answer) : \A i \in DOMAIN answer : m.date <= answer[i].date
      /\ \A i, j \in DOMAIN answer : answer[i].file = answer[j].file /\ answer[i].line = answer[j].line => i = j

\* What the tool's description says of date_from and date_to: no match of a file
\* whose date is known lies outside the range (server.py:544-545).
MatchesAreInRange == \A m \in found : InRange(DateOf[m.file], query)

=============================================================================
