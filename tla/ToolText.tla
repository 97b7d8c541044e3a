------------------------------- MODULE ToolText -------------------------------
(***************************************************************************)
(* The text algorithms of the built-in tools: paging a file (read_file),   *)
(* spilling a long result (run_command), path globs (grep, glob), the cut  *)
(* of a query result (query_db) and the sections of a fetched page         *)
(* (web_url_read).  Each is an operator on an input; `job` is the call     *)
(* under way.  And the schema screen of tool arguments and of client-tool  *)
(* output (toolruntime/schema.go), against a declarative reading of the    *)
(* same keywords: a schema is a function from the keywords it carries;     *)
(* JSON numbers are counted in halves, strings by their length.            *)
(***************************************************************************)
EXTENDS Integers, Sequences, SequencesExt, FiniteSetsExt

CONSTANTS
  MaxBytes,      \* length of the texts
  Page,          \* largest page of read_file
  SpillCap, KeepHead, KeepTail,
  Chars, MaxGlob, MaxPath,
  RowSizes, MaxRows, ResultCap

VARIABLE job

(* A text is a sequence of bytes; byte b opens a rune or continues one. *)
Lead == "lead"
Cont == "cont"
Utf8(n) == {s \in [1..n -> {Lead, Cont}] :
              /\ n > 0 => s[1] = Lead
              /\ \A i \in 1..n - 3 : \E k \in i..i + 3 : s[k] = Lead}
Texts == UNION {Utf8(n) : n \in 0..MaxBytes}

\* Offsets count from 0 as in Go: byte s[i] of the code is s[i + 1] here.
OnRune(s, i) == i = 0 \/ i >= Len(s) \/ s[i + 1] = Lead

RuneBoundaryAtOrBefore(s, i) ==
  IF i >= Len(s) THEN Len(s) ELSE Max({j \in 0..i : OnRune(s, j)})

(* read_file *)
PageLimit(limit) == IF limit <= 0 \/ limit > Page THEN Page ELSE limit

ReadPageExact(s, offset, asked) ==
  LET limit == PageLimit(asked)
      data  == SubSeq(s, 1, Min({Len(s), offset + limit + 1}))
      start == RuneBoundaryAtOrBefore(data, offset)
      more  == Len(data) > start + limit
  IN  [from |-> start, to |-> RuneBoundaryAtOrBefore(data, start + limit), more |-> more]

\* The page is cut from at most offset + limit + 1 bytes: [from, to) and
\* whether a continuation is announced.
ReadPage(s, offset, asked) ==
  LET limit == PageLimit(asked)
      data  == SubSeq(s, 1, Min({Len(s), offset + limit + 1}))
      start == RuneBoundaryAtOrBefore(data, offset)
      whole == Len(data) <= start + limit
      cut   == RuneBoundaryAtOrBefore(data, start + limit)
      wide  == Min({e \in start + 1..Len(data) : e = Len(data) \/ OnRune(data, e)})
  IN  CASE offset >= Len(data) -> [from |-> Len(data), to |-> Len(data), more |-> FALSE]
        [] offset < Len(data) /\ whole -> [from |-> start, to |-> Len(data), more |-> FALSE]
        [] OTHER -> [from |-> start, to |-> IF cut <= start THEN wide ELSE cut, more |-> TRUE]

\* The bytes a reader has seen who starts at offset and follows the markers.
RECURSIVE Follow(_, _, _, _)
Follow(s, offset, limit, fuel) ==
  LET p == ReadPage(s, offset, limit)
      seen == p.from..p.to - 1
  IN  IF p.more /\ fuel > 0 THEN seen \cup Follow(s, p.to, limit, fuel - 1) ELSE seen

(* capAndSpill *)
SpillHead(s) == RuneBoundaryAtOrBefore(s, KeepHead)
SpillTail(s) == RuneBoundaryAtOrBefore(s, Len(s) - KeepTail)
CapAndSpill(s) == [head |-> SpillHead(s), tail |-> SpillTail(s), spilled |-> Len(s) > SpillCap]

(* globToRegexp: a glob becomes a sequence of regexp atoms. *)
GlobAtom(g, i) ==
  CASE g[i] = "*" /\ i < Len(g) /\ g[i + 1] = "*" /\ i + 1 < Len(g) /\ g[i + 2] = "/" ->
         [re |-> "dirs", next |-> i + 3]
    [] g[i] = "*" /\ i < Len(g) /\ g[i + 1] = "*" /\ ~(i + 1 < Len(g) /\ g[i + 2] = "/") ->
         [re |-> "any", next |-> i + 2]
    [] g[i] = "*" /\ ~(i < Len(g) /\ g[i + 1] = "*") -> [re |-> "segment", next |-> i + 1]
    [] OTHER -> [re |-> g[i], next |-> i + 1]

\* The places at which the match of one atom that starts at p[i] may end.
AtomEnds(re, p, i) ==
  CASE re = "any" -> i..Len(p) + 1
    [] re = "dirs" -> {i} \cup {j + 1 : j \in {k \in i..Len(p) : p[k] = "/"}}
    [] re = "segment" -> {j \in i..Len(p) + 1 : \A k \in i..j - 1 : p[k] # "/"}
    [] re = "?" -> IF i <= Len(p) /\ p[i] # "/" THEN {i + 1} ELSE {}
    [] OTHER -> IF i <= Len(p) /\ p[i] = re THEN {i + 1} ELSE {}

RECURSIVE MatchFrom(_, _, _, _)
MatchFrom(g, gi, p, i) ==
  IF gi > Len(g) THEN i = Len(p) + 1
  ELSE LET a == GlobAtom(g, gi)
       IN  \E j \in AtomEnds(a.re, p, i) : MatchFrom(g, a.next, p, j)
GlobMatches(g, p) == MatchFrom(g, 1, p, 1)

Slashes(s) == {i \in DOMAIN s : s[i] = "/"}
Segment(s, n) ==  \* the n-th segment of a path or of a pattern
  LET cuts == Slashes(s) \cup {0, Len(s) + 1}
      from == CHOOSE c \in cuts : Cardinality({d \in cuts : d < c}) = n - 1
      to   == CHOOSE c \in cuts : Cardinality({d \in cuts : d < c}) = n
  IN  SubSeq(s, from + 1, to - 1)

\* Reference for a pattern without **: segment by segment, a star is any
\* string, a question mark any character.
RECURSIVE Wild(_, _)
Wild(g, p) ==
  CASE g = <<>> -> p = <<>>
    [] g # <<>> /\ Head(g) = "*" -> Wild(Tail(g), p) \/ (p # <<>> /\ Wild(g, Tail(p)))
    [] OTHER -> p # <<>> /\ Head(g) \in {"?", Head(p)} /\ Wild(Tail(g), Tail(p))
SegmentWise(g, p) ==
  /\ Cardinality(Slashes(g)) = Cardinality(Slashes(p))
  /\ \A n \in 1..Cardinality(Slashes(g)) + 1 : Wild(Segment(g, n), Segment(p, n))
HasDoubleStar(g) == \E i \in 1..Len(g) - 1 : g[i] = "*" /\ g[i + 1] = "*"

(* serializeRows: rows of the given encoded sizes, the brackets and commas. *)
Sum(sizes) == FoldLeft(LAMBDA a, b : a + b, 0, sizes)
Encoded(sizes) == 2 + Sum(sizes) + IF Len(sizes) > 1 THEN Len(sizes) - 1 ELSE 0
Kept(sizes) ==
  LET fits(k) == 2 + Sum(SubSeq(sizes, 1, k)) + (IF k > 1 THEN k - 1 ELSE 0) <= ResultCap
  IN  IF Encoded(sizes) <= ResultCap THEN Len(sizes)
      ELSE Max({k \in 0..Len(sizes) : \A j \in 1..k : fits(j)})

(* extractSection: the lines of a page are headings of a level, or 0. *)
ExtractSection(lines, start) ==
  LET ends == {i \in start + 1..Len(lines) : lines[i] > 0 /\ lines[i] <= lines[start]}
  IN  start..(IF ends = {} THEN Len(lines) ELSE Min(ends) - 1)

-----------------------------------------------------------------------------
(* The schema screen.                                                      *)

(* JSON values *)
Null == [k |-> "null"]
Bool == [k |-> "bool"]
Num(n) == [k |-> "num", n |-> n]
Str(n) == [k |-> "str", n |-> n]
Arr(els) == [k |-> "arr", els |-> els]
Obj(f) == [k |-> "obj", f |-> f]

Has(s, key) == key \in DOMAIN s

(* validateRange *)
ValidateRange(s, n) ==
  /\ Has(s, "minimum") => n >= s["minimum"]
  /\ Has(s, "maximum") => n <= s["maximum"]
  /\ Has(s, "exclusiveMinimum") => n > s["exclusiveMinimum"]

RECURSIVE Validate(_, _)

ValidateObject(s, v) ==
  /\ v.k = "obj"
  /\ Has(s, "required") => s["required"] \subseteq DOMAIN v.f
  /\ LET props == IF Has(s, "properties") THEN s["properties"] ELSE <<>>
     IN  \A key \in DOMAIN v.f :
           IF key \in DOMAIN props THEN Validate(props[key], v.f[key])
           ELSE Has(s, "properties") => (Has(s, "additionalProperties") /\ s["additionalProperties"])

ValidateArray(s, v) ==
  /\ v.k = "arr"
  /\ Has(s, "minItems") => Len(v.els) >= s["minItems"]
  /\ Has(s, "items") => \A i \in DOMAIN v.els : Validate(s["items"], v.els[i])

ValidateString(s, v) ==
  /\ v.k = "str"
  /\ Has(s, "minLength") => v.n >= s["minLength"]

ByType(s, v) ==
  CASE s["type"] = "object" -> ValidateObject(s, v)
    [] s["type"] = "array" -> ValidateArray(s, v)
    [] s["type"] = "string" -> ValidateString(s, v)
    [] s["type"] = "boolean" -> v.k = "bool"
    [] s["type"] = "integer" -> v.k = "num" /\ v.n % 2 = 0 /\ ValidateRange(s, v.n)
    [] s["type"] = "number" -> v.k = "num" /\ ValidateRange(s, v.n)
    [] s["type"] = "null" -> v.k = "null"
    [] OTHER -> FALSE

\* const and enum come first; a node without a type is checked no further.
Validate(s, v) ==
  /\ Has(s, "const") => v = s["const"]
  /\ Has(s, "enum") => v \in s["enum"]
  /\ ~Has(s, "type") \/ ByType(s, v)

(* The reference: every keyword constrains the values of its own kind, on   *)
(* its own; an object with declared properties is closed unless it says so. *)
Kinds(t) ==
  CASE t = "object" -> {"obj"} [] t = "array" -> {"arr"} [] t = "string" -> {"str"}
    [] t = "boolean" -> {"bool"} [] t \in {"integer", "number"} -> {"num"} [] t = "null" -> {"null"} [] OTHER -> {}

RECURSIVE Conforms(_, _)
Conforms(s, v) == \A key \in DOMAIN s :
  CASE key = "type" -> v.k \in Kinds(s[key]) /\ (s[key] = "integer" => v.n % 2 = 0)
    [] key = "const" -> v = s[key]
    [] key = "enum" -> v \in s[key]
    [] key = "required" -> v.k = "obj" => s[key] \ DOMAIN v.f = {}
    [] key = "properties" -> v.k = "obj" => \A p \in DOMAIN v.f :
         \/ p \in DOMAIN s[key] /\ Conforms(s[key][p], v.f[p])
         \/ p \notin DOMAIN s[key] /\ "additionalProperties" \in DOMAIN s /\ s["additionalProperties"]
    [] key = "items" -> v.k = "arr" => \A i \in DOMAIN v.els : Conforms(s[key], v.els[i])
    [] key = "minItems" -> v.k = "arr" => ~(Len(v.els) < s[key])
    [] key = "minLength" -> v.k = "str" => ~(v.n < s[key])
    [] key = "minimum" -> v.k = "num" => ~(v.n < s[key])
    [] key = "maximum" -> v.k = "num" => ~(v.n > s[key])
    [] key = "exclusiveMinimum" -> v.k = "num" => ~(v.n <= s[key])
    [] OTHER -> TRUE

(* Inputs: typed schemas two levels deep and values of every kind. *)
Opt(key, vals) == {<<>>} \cup {key :> x : x \in vals}
Join(A, B) == {a @@ b : a \in A, b \in B}
Leaf == UNION {
  Join({"type" :> "integer"}, Join(Opt("minimum", {2}), Opt("enum", {{Num(2), Str(1)}}))),
  Join({"type" :> "number"}, Join(Opt("maximum", {3}), Opt("exclusiveMinimum", {2}))),
  Join({"type" :> "string"}, Join(Opt("minLength", {1}), Opt("const", {Str(1), Num(2)}))),
  {"type" :> "boolean", "type" :> "null", "type" :> "strange"}}
Schemas == Leaf
  \cup Join({"type" :> "array"}, Join(Opt("minItems", {1}), Opt("items", Leaf)))
  \cup Join({"type" :> "object"}, Join(Opt("required", {{"p"}, {"q"}}),
         Join(Opt("properties", {"p" :> l : l \in Leaf}), Opt("additionalProperties", BOOLEAN))))
Atoms == {Null, Bool} \cup {Num(n) : n \in 1..4} \cup {Str(0), Str(1)}
Values == Atoms \cup {Arr(els) : els \in BoundedSeq(Atoms, 1)}
  \cup {Obj(f) : f \in {<<>>} \cup {"p" :> a : a \in Atoms} \cup {"q" :> Null} \cup {("p" :> a) @@ ("q" :> Null) : a \in Atoms}}

-----------------------------------------------------------------------------
(* The calls.                                                              *)

ToolTextInit == job = [tool |-> "none"]

ReadFile(s, offset, limit) ==
  job' = [tool |-> "read_file", text |-> s, offset |-> offset, limit |-> limit,
          page |-> ReadPage(s, offset, limit)]
RunCommand(s) == job' = [tool |-> "run_command", text |-> s, cut |-> CapAndSpill(s)]
Glob(g, p) == job' = [tool |-> "glob", glob |-> g, path |-> p, hit |-> GlobMatches(g, p)]
QueryDB(sizes) == job' = [tool |-> "query_db", sizes |-> sizes, kept |-> Kept(sizes)]
WebURLRead(lines, start) ==
  job' = [tool |-> "web_url_read", lines |-> lines, start |-> start, part |-> ExtractSection(lines, start)]
ValidateArgs(s, v) == job' = [tool |-> "validate", schema |-> s, value |-> v, ok |-> Validate(s, v)]

ToolTextNext ==
  /\ job.tool = "none"
  /\ \/ \E s \in Texts : \E offset \in 0..Len(s), limit \in 0..Page : ReadFile(s, offset, limit)
     \/ \E s \in Utf8(MaxBytes) \cup Utf8(SpillCap + 1) : RunCommand(s)
     \/ \E g \in BoundedSeq(Chars \cup {"*", "?", "/"}, MaxGlob), p \in BoundedSeq(Chars \cup {"/"}, MaxPath) : Glob(g, p)
     \/ \E sizes \in BoundedSeq(RowSizes, MaxRows) : QueryDB(sizes)
     \/ \E lines \in BoundedSeq(0..2, MaxRows) : \E start \in {i \in DOMAIN lines : lines[i] > 0} : WebURLRead(lines, start)
     \/ \E s \in Schemas, v \in Values : ValidateArgs(s, v)

ToolTextSpec == ToolTextInit /\ [][ToolTextNext]_job

\* Whatever the offset and the page size, a reader that follows the
\* continuation markers of read_file sees every byte from its offset on.
PagesReachTheEnd ==
  job.tool = "read_file" =>
    job.offset..Len(job.text) - 1 \subseteq Follow(job.text, job.offset, job.limit, Len(job.text))

\* The head kept inline ends on a rune and never runs into the tail preview,
\* and reading the spilled file from the marker's offset yields what is missing.
SpillLosesNothing ==
  job.tool = "run_command" /\ job.cut.spilled =>
    /\ job.cut.head <= job.cut.tail
    /\ OnRune(job.text, job.cut.head) /\ OnRune(job.text, job.cut.tail)
    /\ job.cut.head..Len(job.text) - 1 \subseteq Follow(job.text, job.cut.head, Page, Len(job.text))

\* A glob without ** matches exactly segment by segment, and **/ in front
\* matches at every depth, the top included.
GlobMeansSegments ==
  job.tool = "glob" =>
    /\ ~HasDoubleStar(job.glob) => (job.hit <=> SegmentWise(job.glob, job.path))
    /\ (job.hit /\ ~HasDoubleStar(job.glob)) =>
         /\ GlobMatches(<<"*", "*", "/">> \o job.glob, job.path)
         /\ \A c \in Chars : GlobMatches(<<"*", "*", "/">> \o job.glob, <<c, "/">> \o job.path)

\* The rows kept of an oversized result fit the cap, and one more would not.
LongestPrefixKept ==
  job.tool = "query_db" =>
    /\ job.kept = Len(job.sizes) \/ Encoded(SubSeq(job.sizes, 1, job.kept)) <= ResultCap
    /\ job.kept < Len(job.sizes) => Encoded(SubSeq(job.sizes, 1, job.kept + 1)) > ResultCap

\* A section holds its own subsections and stops before the next heading
\* that is not below it.
SectionHoldsItsSubsections ==
  job.tool = "web_url_read" =>
    LET below(i) == \A k \in job.start + 1..i : job.lines[k] = 0 \/ job.lines[k] > job.lines[job.start]
    IN  \A i \in job.start + 1..Len(job.lines) : i \in job.part <=> below(i)

\* On schemas that give every node a type, the early-return screen accepts
\* exactly the values that satisfy each keyword on its own.
ScreenIsExact == job.tool = "validate" => (job.ok <=> Conforms(job.schema, job.value))
=============================================================================
