--------------------------- MODULE ReportRendering ---------------------------
(***************************************************************************)
(* What the renderers hand to the writer, piece by piece.  A piece is what *)
(* one or several consecutive prints say together: the opening of a file,  *)
(* a violation, an error, or a whole document where the code encodes one.  *)
(* The wording and the escaping are left out.                              *)
(***************************************************************************)
EXTENDS Naturals, Sequences, SequencesExt, FiniteSets, Ordering

Formats == {"text", "ansi", "xml", "json", "github", "gitlab", "checkstyle", "sarif", "html"}
ByFileFormats == {"xml", "checkstyle", "html"}

Piece(kind, of) == [kind |-> kind, of |-> of]
Pieces(kind, s) == [i \in DOMAIN s |-> Piece(kind, s[i])]

\* The runs handed out so far, how many violations were read for them, and
\* whether the last of these is of another file and begins the next run.
Turns(vs) == [runs : Seq(Seq(Range(vs))), read : 0 .. Len(vs), pending : BOOLEAN]
NoRuns == [runs |-> <<>>, read |-> 0, pending |-> FALSE]
Exhausted(vs, turn) == ~ turn.pending /\ turn.read = Len(vs)

\* The violation the next run begins with, and the last of its file before another.
RunStart(turn) == IF turn.pending THEN turn.read ELSE turn.read + 1
RunEnd(vs, first) ==
    LET others == {i \in first + 1 .. Len(vs) : vs[i].file # vs[first].file}
    IN  IF others = {} THEN Len(vs) ELSE Min(others) - 1

\* Mutation: the violation that was read ahead is forgotten.
ForgetfulTurn(vs, turn) ==
    LET last == RunEnd(vs, RunStart(turn))
    IN  [runs |-> Append(turn.runs, SubSeq(vs, RunStart(turn), last)),
         read |-> IF last < Len(vs) THEN last + 1 ELSE last, pending |-> FALSE]

\* A run ends at the first violation of another file, which is read to see that.
NextRun(vs, turn) ==
    LET last == RunEnd(vs, RunStart(turn))
    IN  [runs |-> Append(turn.runs, SubSeq(vs, RunStart(turn), last)),
         read |-> IF last < Len(vs) THEN last + 1 ELSE last, pending |-> last < Len(vs)]

\* Runs of violations of the same file, in report order; every turn reads some.
FileRuns(vs) ==
    LET next == [turn \in Turns(vs) |-> IF Exhausted(vs, turn) THEN turn ELSE NextRun(vs, turn)]
        after[k \in 0 .. Len(vs)] == IF k = 0 THEN NoRuns ELSE next[after[k - 1]]
    IN  after[Len(vs)].runs

\* One entry for each file, numbered in the order of its first violation.
IndexedFiles(vs) ==
    LET first(f) == CHOOSE i \in DOMAIN vs : vs[i].file = f /\ \A j \in 1 .. i - 1 : vs[j].file # f
        files == SetToSortSeq({vs[i].file : i \in DOMAIN vs}, LAMBDA f, g : first(f) < first(g))
    IN  [n \in DOMAIN files |-> SelectSeq(vs, LAMBDA v : v.file = files[n])]

\* The rules of a SARIF document, each once.
DriverRules(vs) == {vs[i].rule : i \in DOMAIN vs}

\* The renderers that print, violation by violation or file by file.
TextReport(vs, errors) == Pieces("violation", vs) \o Pieces("error", errors)
GitHubReport(vs, errors) == Pieces("violation", vs) \o Pieces("error", errors)

Opened(r) == <<Piece("open", r[1].file)>> \o Pieces("violation", r) \o <<Piece("close", r[1].file)>>
ByFile(vs) ==
    LET runs == FileRuns(vs) IN FlattenSeq([n \in DOMAIN runs |-> Opened(runs[n])])
Framed(body) == <<Piece("header", "")>> \o body \o <<Piece("footer", "")>>

XMLReport(vs, errors) == Framed(ByFile(vs) \o Pieces("error", errors))
\* The errors of Checkstyle stand in files of their own.
CheckStyleReport(vs, errors) == Framed(ByFile(vs) \o Pieces("error file", errors))
HTMLReport(vs, errors) == Framed(ByFile(vs) \o Pieces("paragraph", errors))

\* The renderers that build a document and encode it at once.
Document(content) == <<Piece("document", content)>>

JSONReport(vs, errors) == Document([files |-> IndexedFiles(vs), errors |-> errors])
GitLabReport(vs, errors) == Document([entries |-> vs, errors |-> errors])
SARIFReport(vs, errors) == Document([rules |-> DriverRules(vs), results |-> vs, errors |-> errors])

\* Render, for a format that Renderer found.
Rendered(format, vs, errors) ==
    CASE format \in {"text", "ansi"} -> TextReport(vs, errors)
      [] format = "github" -> GitHubReport(vs, errors)
      [] format = "xml" -> XMLReport(vs, errors)
      [] format = "checkstyle" -> CheckStyleReport(vs, errors)
      [] format = "html" -> HTMLReport(vs, errors)
      [] format = "json" -> JSONReport(vs, errors)
      [] format = "gitlab" -> GitLabReport(vs, errors)
      [] format = "sarif" -> SARIFReport(vs, errors)
=============================================================================
