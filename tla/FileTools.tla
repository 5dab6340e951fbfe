----------------------------- MODULE FileTools ------------------------------
(***************************************************************************)
(* One file of the workspace under the tools of the model: write_file,     *)
(* edit_file, md_file, format_file and read_file, called one at a time by  *)
(* the agent (Agent::executeTool), with a user who saves the same file     *)
(* from an editor between two calls.  list_dir and grep_files look at the  *)
(* tree of FileSearch.                                                     *)
(*                                                                         *)
(* A call is one step: the slot of diff_capture belongs to the calling     *)
(* thread, is cleared before the tool runs and taken right after it, so    *)
(* `card` is what the call leaves there.                                   *)
(***************************************************************************)
EXTENDS FileText, FileSearch

CONSTANTS
  Contents,    \* texts a write is asked to store
  Searches,    \* search arguments (not empty)
  Replaces,    \* replace arguments
  Saves,       \* what the user's editor may save
  MaxWrite,    \* MAX_WRITE_CONTENT_SIZE
  MaxFile      \* bound of the model on the length of the file

ASSUME FileAssumption ==
  /\ {MaxWrite, MaxFile} \subseteq Nat \ {0}
  /\ <<>> \notin Searches
  /\ \A t \in Contents \cup Searches \cup Replaces \cup Saves : t \in Seq(Symbols)
  /\ \A t \in Saves : Len(t) <= MaxFile

VARIABLES
  os,        \* "linux" | "windows"
  file,      \* <<text>>, or <<>> while there is no file
  card,      \* the diff of the last call: <<diff>> or <<>>
  page,      \* a reading of the present text: [got, next], next = 0 when done
  chunks,    \* a content sent in pieces: <<[whole, sent]>> or <<>>
  found,     \* what the last list_dir or grep_files answered
  by         \* who made the last step: "edit_file", "md_file", "format_file",
             \* "tool" for another tool, or "user"

files == <<os, file, card, page, chunks, found, by>>

NoReading == [got |-> <<>>, next |-> 1]
NoResult  == [tool |-> "none"]

FilesInit ==
  /\ os \in {"linux", "windows"}
  /\ file \in {<<>>} \cup {<<t>> : t \in Saves}
  /\ card = <<>>
  /\ page = NoReading
  /\ chunks = <<>>
  /\ found = NoResult
  /\ by = "user"

\* What a read of the file gives; a missing file leaves the string empty.
Before == IF file = <<>> THEN <<>> ELSE file[1]

(* The file holds `text` now, and the call recorded the diff from the old  *)
(* text to `shown`.  What was read of the old text says nothing any more.  *)
Store(who, text, shown) ==
  /\ Len(text) <= MaxFile
  /\ file' = <<text>>
  /\ card' = makeUnifiedDiff(Before, shown)
  /\ page' = NoReading
  /\ found' = NoResult
  /\ by' = who
  /\ UNCHANGED os

\* An error, or a call that only reads: nothing was recorded.
Leave(who) ==
  /\ card' = <<>>
  /\ found' = NoResult
  /\ by' = who
  /\ UNCHANGED <<os, file, chunks>>

(* ---- write_file ------------------------------------------------------ *)

(* write_file opens the stream in text mode.                               *)
Translated(text) ==
  IF os = "linux" THEN text ELSE Spelled(text, <<CR>>, <<CR, LF>>)

Overwritten(append, content) == content

\* What a write puts on disk, and what it shows, when it appends or not.
Joined(append, content) == (IF append THEN Before ELSE <<>>) \o content

WriteTooLarge(content) ==
  /\ Len(content) > MaxWrite
  /\ chunks' = <<[whole |-> content, sent |-> 0]>>
  /\ card' = <<>>
  /\ found' = NoResult
  /\ by' = "tool"
  /\ UNCHANGED <<os, file, page>>

AppendShowsContent(content, append) ==
  /\ Len(content) <= MaxWrite
  /\ Store("tool", Joined(append, Translated(content)), content)
  /\ chunks' = <<>>

WriteFile(content, append) ==
  /\ Len(content) <= MaxWrite
  /\ Store("tool", Joined(append, Translated(content)), Joined(append, content))
  /\ chunks' = <<>>

(* The next n symbols of a content that was too large: the first piece     *)
(* overwrites, the others append.                                          *)
WriteChunk(n) ==
  /\ chunks # <<>>
  /\ LET c == chunks[1]
         part == SubSeq(c.whole, c.sent + 1, c.sent + n)
     IN  /\ c.sent + n <= Len(c.whole)
         /\ Store("tool", Joined(c.sent > 0, Translated(part)), Joined(c.sent > 0, part))
         /\ chunks' = <<[c EXCEPT !.sent = @ + n]>>

(* ---- edit_file, md_file, format_file --------------------------------- *)

\* The text an edit makes: <<>> refuses.
Rewrite(who, new) ==
  IF file = <<>> \/ new = <<>>
  THEN Leave(who) /\ UNCHANGED page
  ELSE Store(who, new[1], new[1]) /\ chunks' = <<>>

EditFile(search, replace) == Rewrite("edit_file", EditText(Before, search, replace))
MdEdit(search, replace)   == Rewrite("md_file", MdEditText(Before, search, replace))

\* The stream is binary: what is shown is what is stored.
MdWrite(content, append) ==
  IF Len(content) > MaxWrite
  THEN Leave("tool") /\ UNCHANGED page
  ELSE /\ Store("tool", Joined(append, content), Joined(append, content))
       /\ chunks' = <<>>

FormatFile ==
  LET after == normalizeWhitespace(Before)
  IN  Rewrite("format_file", IF after = Before THEN <<>> ELSE <<after>>)

(* clang-format -i ran as a child and left `text`, or the same text: the   *)
(* file is read before and after.  A failed run leaves the file.           *)
ClangFormat(text) ==
  /\ file # <<>>
  /\ Rewrite("tool", IF text = Before THEN <<>> ELSE <<text>>)

(* ---- read_file, list_dir, grep_files --------------------------------- *)

(* The next page of a reading; a reading may also begin again.             *)
ReadFile(first) ==
  /\ file # <<>>
  /\ first \in {1, page.next} \ {0}
  /\ LET p == readFileRange(Before, first, 0)
     IN  page' = [got  |-> (IF first = 1 THEN <<>> ELSE page.got) \o p.lines,
                  next |-> p.next]
  /\ Leave("tool")

ListDir(dir, asked, exclude) ==
  /\ Tree[dir].dir
  /\ found' = [tool |-> "list", dir |-> dir, depth |-> Depth(asked), hidden |-> exclude,
               out |-> listDir(dir, asked, exclude)]
  /\ card' = <<>>
  /\ by' = "tool"
  /\ UNCHANGED <<os, file, page, chunks>>

GrepFiles(path, max) ==
  /\ \E out \in grepFiles(path, max) :
       found' = [tool |-> "grep", path |-> path, max |-> max, out |-> out]
  /\ card' = <<>>
  /\ by' = "tool"
  /\ UNCHANGED <<os, file, page, chunks>>

(* ---- the user's editor ----------------------------------------------- *)

(* A save may come between any two calls; `card` is of the last step.      *)

Save(text) ==
  /\ file # <<text>>
  /\ file' = <<text>>
  /\ page' = NoReading
  /\ chunks' = <<>>
  /\ card' = <<>>
  /\ by' = "user"
  /\ UNCHANGED <<os, found>>

(* ---- the specification ----------------------------------------------- *)

Writes ==
  \E content \in Contents, append \in BOOLEAN :
    WriteTooLarge(content) \/ WriteFile(content, append) \/ MdWrite(content, append)

Edits ==
  \E search \in Searches, replace \in Replaces :
    EditFile(search, replace) \/ MdEdit(search, replace)

\* A bound: the tree is looked at before the file is made; neither knows the other.
Looks ==
  /\ file = <<>>
  /\ \E path \in DOMAIN Tree, n \in 0 .. 3, exclude \in {{}, {2}} :
       ListDir(path, n, exclude) \/ (n > 0 /\ GrepFiles(path, n))

FilesNext ==
  \/ Writes
  \/ \E n \in 1 .. MaxWrite : WriteChunk(n)
  \/ Edits
  \/ FormatFile
  \/ \E text \in Saves : ClangFormat(text) \/ Save(text)
  \/ \E first \in 1 .. MaxFile : ReadFile(first)
  \/ Looks

FilesSpec == FilesInit /\ [][FilesNext]_files

(* ---- properties ------------------------------------------------------ *)

FilesTypeOK ==
  /\ os \in {"linux", "windows"}
  /\ Len(file) <= 1 /\ Len(card) <= 1 /\ Len(chunks) <= 1
  /\ file # <<>> => Len(file[1]) <= MaxFile
  /\ page.next \in 0 .. MaxFile + 1
  /\ by \in {"edit_file", "md_file", "format_file", "tool", "user"}

(* A line as it is seen: no CR.                                            *)
Plain(ls) == [i \in DOMAIN ls |-> StripCR(ls[i])]

\* The lines of one side of a diff; `tag` is the tag of the other side.
Side(d, tag) ==
  LET ops == SelectSeq(d.lines, LAMBDA op : op.tag # tag)
  IN  [i \in DOMAIN ops |-> StripCR(ops[i].text)]

(* The diff, as far as the cap lets it go, takes `a` apart and puts `b`    *)
(* together, and outside the hunk both are the same.                       *)
Patches(d, a, b) ==
  LET old == Side(d, "+")
      new == Side(d, "-")
  IN  /\ old = SubSeq(a, d.from + 1, d.from + Len(old))
      /\ new = SubSeq(b, d.from + 1, d.from + Len(new))
      /\ SubSeq(a, 1, d.from) = SubSeq(b, 1, d.from)
      /\ SubSeq(a, d.from + d.oldCount + 1, Len(a)) = SubSeq(b, d.from + d.newCount + 1, Len(b))
      /\ d.more = 0 => Len(old) = d.oldCount /\ Len(new) = d.newCount
      /\ Len(d.lines) + d.more >= Max({d.oldCount, d.newCount})

(* The diff a call shows is what the call did to the file on disk, for     *)
(* every tool and on both platforms; a change of a line that can be shown  *)
(* is shown.  The tools diff strings they hold in memory, not the file.    *)
CardTellsTheChange ==
  [][by' # "user" =>
       LET now == IF file' = <<>> THEN <<>> ELSE file'[1]
           a   == Plain(Lines(Before))
           b   == Plain(Lines(now))
       IN  IF card' # <<>> THEN Patches(card'[1], a, b)
           ELSE a = b \/ Has(Before, NUL) \/ Has(now, NUL)]_files

(* `new` is `old` with one piece replaced, a piece that reads like `search`*)
(* and does not take the CR of the line it ends in; everything around it   *)
(* is byte for byte what it was.                                           *)
OneReplaced(old, new, search, replace) ==
  \E i, j \in 0 .. Len(old) :
    /\ i <= j
    /\ new = Splice(old, i, j, replace)
    /\ StripCR(SubSeq(old, i + 1, j)) = StripCR(search)
    /\ i < j => old[j] # CR \/ SubSeq(old, i + 1, j) = search

(* edit_file replaces the first piece that matches, whatever line ends the *)
(* file and the search text have, and leaves every other byte alone.       *)
EditTouchesOneMatch ==
  [][\A search \in Searches, replace \in Replaces :
       by' = "edit_file" /\ file' # file /\ EditText(Before, search, replace) = file'
       => OneReplaced(Before, file'[1], search, replace)]_files

(* md_file does the same in a file that has a CR only before an LF.        *)
MdEditTouchesOneMatch ==
  [][\A search \in Searches, replace \in Replaces :
       /\ by' = "md_file" /\ MdEditText(Before, search, replace) = file'
       /\ file' # file /\ ~ Has(Normalized(Before), CR)
       => OneReplaced(Before, file'[1], search, replace)]_files

(* The clean-up of format_file keeps what the lines say and their order,   *)
(* and one kind of line end, CR LF if the file had any.  Blanks and CR at  *)
(* the end of a line say nothing: a CR in front of trimmed blanks becomes  *)
(* a part of the line end.                                                 *)
Said(t) ==
  LET ls == Lines(t) IN WithoutEmptyEnd([i \in DOMAIN ls |-> WithoutEnd(ls[i], {Blank, CR})])
FormatKeepsText ==
  [][by' = "format_file" /\ file' # file =>
       /\ Said(file'[1]) = Said(Before)
       /\ HasCRLF(Before) => \A i \in DOMAIN file'[1] :
                               file'[1][i] = LF => i > 1 /\ file'[1][i - 1] = CR]_files

(* A tool changes in a file what it was asked to change, and nothing else. *)
OnlyWhatWasAsked == EditTouchesOneMatch /\ MdEditTouchesOneMatch /\ FormatKeepsText

(* The pages of a reading, put together, are the lines of the file, each   *)
(* once and in order; only a line too long for a page is cut, and every    *)
(* page gets further.                                                      *)
PagesAreTheFile ==
  page # NoReading =>
    LET ls == Lines(Before)
    IN  /\ Len(page.got) <= Len(ls)
        /\ \A i \in DOMAIN page.got :
             \/ page.got[i] = ls[i]
             \/ Len(ls[i]) >= RangeBytes /\ page.got[i] = SubSeq(ls[i], 1, RangeBytes - 1)
        /\ page.next = IF Len(page.got) = Len(ls) THEN 0 ELSE Len(page.got) + 1

(* A content sent in pieces, because one call was refused, is on disk what *)
(* one call would have stored.                                             *)
ChunksMakeTheWhole ==
  chunks # <<>> /\ chunks[1].sent > 0 =>
    Before = Translated(SubSeq(chunks[1].whole, 1, chunks[1].sent))

(* grep_files invents nothing, and what it does not say to be cut short is *)
(* every match there is, also when the path is a file and not a directory. *)
GrepSaysWhenCut ==
  found.tool = "grep" =>
    LET out == found.out
        all == IF Tree[found.path].dir THEN UNION {Hits(p) : p \in Searched(found.path)}
                                       ELSE Hits(found.path)
    IN  /\ out.hits \subseteq all
        /\ Cardinality(out.hits) <= found.max
        /\ out.note = "none" => out.hits = all

(* list_dir shows every entry down to its depth, or says it is cut short;  *)
(* a directory it does not open it marks with the number of its entries.   *)
ListingSaysWhenCut ==
  found.tool = "list" =>
    LET rows    == ToSet(found.out.rows)
        shown   == {r.path : r \in rows}
        visible == {p \in Below(found.dir) :
                      /\ Len(p) - Len(found.dir) <= found.depth
                      /\ \A q \in Below(found.dir) :
                           IsPrefix(q, p) => /\ ~ (Tree[q].dir /\ Tree[q].junk)
                                             /\ Last(q) \notin found.hidden}
    IN  /\ Cardinality(rows) = Len(found.out.rows)
        /\ shown \subseteq visible
        /\ ~ found.out.truncated => shown = visible
        /\ \A r \in rows : Tree[r.path].dir /\ Children(r.path) # {}
                             /\ Len(r.path) - Len(found.dir) = found.depth => r.entries > 0

(* The types, pieces that make a whole, and a search or a listing that is  *)
(* complete where the model is not told it was cut short.                  *)
FilesInv == FilesTypeOK /\ ChunksMakeTheWhole /\ GrepSaysWhenCut /\ ListingSaysWhenCut
=============================================================================
