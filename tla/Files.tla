---------------------------------- MODULE Files ---------------------------------
(***************************************************************************)
(* The file and directory helpers. A file is a sequence of bytes; a        *)
(* directory is a sequence of entries in the order they are read.          *)
(***************************************************************************)
EXTENDS Naturals, Sequences, SequencesExt

CONSTANTS OffsetWord,   \* offsets are cut to this many values (UINT32) on their way to fseek
          Buffers,       \* buffers written
          MaxFile,      \* bound on the length of a file
          Trees         \* directories explored

ASSUME FilesAssumption == OffsetWord \in Nat \ {0} /\ MaxFile < OffsetWord

VARIABLES file,         \* the content of one file, NoFile when there is none
          meant,        \* what its bytes should be
          tree          \* the entries of a directory

fileVars == <<file, meant, tree>>

NoFile == <<256>>      \* not a byte
Zeroes(n) == [i \in 1..n |-> 0]
\* n bytes, what lies beyond the end of s being zero.
Resized(s, n) == [i \in 1..n |-> IF i <= Len(s) THEN s[i] ELSE 0]
Overlaid(s, at, b) == [i \in 1..(IF at + Len(b) > Len(s) THEN at + Len(b) ELSE Len(s)) |->
                          IF i > at /\ i <= at + Len(b) THEN b[i - at] ELSE IF i <= Len(s) THEN s[i] ELSE 0]

-----------------------------------------------------------------------------
(* FileIo.c *)

\* The length alone, without a buffer. An empty file cannot be read into one: nothing is
\* read, and the end of the file is not met either.
readFile(f, room) ==
    CASE f = NoFile -> [st |-> "OPEN_FILE_FAILED"]
      [] room = "length" -> [st |-> "SUCCESS", size |-> Len(f)]
      [] f = << >> -> [st |-> "READ_FILE_FAILED"]
      [] OTHER -> [st |-> "SUCCESS", bytes |-> f]

\* The buffer holds n bytes.
readFileWithin(f, n) ==
    IF f # NoFile /\ Len(f) > n THEN [st |-> "BUFFER_TOO_SMALL"] ELSE readFile(f, "bytes")

readFileSegment(f, offset, n) ==
    CASE n = 0 -> [st |-> "NULL_ARG"]
      [] f = NoFile -> [st |-> "OPEN_FILE_FAILED"]
      [] offset + n > Len(f) -> [st |-> "READ_FILE_FAILED"]
      [] OTHER -> [st |-> "SUCCESS", bytes |-> SubSeq(f, (offset % OffsetWord) + 1, (offset % OffsetWord) + n)]

\* Opening for writing empties the file; writing nothing is reported as a failure.
writeFile(f, append, b) ==
    LET old == IF append /\ f # NoFile THEN f ELSE << >>
    IN  [st |-> IF b = << >> THEN "WRITE_TO_FILE_FAILED" ELSE "SUCCESS", file |-> old \o b]

\* The buffer is indexed by the offset as well: the caller passes the image of the whole file.
updateFile(f, image, offset, n) ==
    IF f = NoFile THEN [st |-> "OPEN_FILE_FAILED", file |-> f]
    ELSE [st |-> "SUCCESS", file |-> Overlaid(f, offset % OffsetWord, SubSeq(image, offset + 1, offset + n))]

getFileLength(f) == readFile(f, "length")

setFileLength(f, n) ==
    IF f = NoFile THEN [st |-> "DIRECTORY_MISSING_PATH", file |-> f] ELSE [st |-> "SUCCESS", file |-> Resized(f, n)]

fileExists(f) == f # NoFile

\* The last byte is written where the size, cut to UINT32, says.
createFile(n) == [st |-> "SUCCESS", file |-> IF n = 0 THEN << >> ELSE Zeroes(((n - 1) % OffsetWord) + 1)]

-----------------------------------------------------------------------------
(* Directory.c: what a link leads to is looked at, not the link *)

\* An entry is a file of some size, a directory, or something else; it may be impossible to
\* remove. Links that lead nowhere cannot be looked at.
Seen(e) == IF e.kind = "link" THEN e.to ELSE e.kind

removeFileDir(acc, e) ==
    CASE Seen(e) \notin {"file", "dir"} -> [acc EXCEPT !.st = "UNKNOWN_DIR_ENTRY_TYPE"]
      [] e.stuck -> [acc EXCEPT !.st = "REMOVE_FAILED"]
      [] OTHER -> [acc EXCEPT !.gone = TRUE]

MutSize(acc, e) == [acc EXCEPT !.size = IF Seen(e) = "file" THEN e.size ELSE @]

getFileDirSize(acc, e) ==
    IF Seen(e) \notin {"file", "dir"} THEN [acc EXCEPT !.st = "UNKNOWN_DIR_ENTRY_TYPE"]
    ELSE [acc EXCEPT !.size = @ + IF Seen(e) = "file" THEN e.size ELSE 0]

\* Entries are visited in order, a directory after its own entries; the first failure ends it.
RECURSIVE traverseDirectory(_, _, _)
traverseDirectory(entries, entryFn, start) ==
    FoldLeft(LAMBDA acc, e :
        IF acc.st # "SUCCESS" THEN [acc EXCEPT !.left = Append(@, e)]
        ELSE LET inner == IF Seen(e) = "dir" THEN traverseDirectory(e.entries, entryFn, [acc EXCEPT !.left = << >>])
                          ELSE [acc EXCEPT !.left = << >>]
                 now == [e EXCEPT !.entries = inner.left]
                 done == CASE Seen(e) = "nothing" -> [inner EXCEPT !.st = "DIRECTORY_ENTRY_STAT_ERROR"]
                           [] inner.st # "SUCCESS" -> inner
                           [] entryFn = "removeFileDir" -> removeFileDir(inner, now)
                           [] entryFn = "getFileDirSize" -> getFileDirSize(inner, now)
             IN  [done EXCEPT !.left = IF done.gone THEN acc.left ELSE Append(acc.left, now), !.gone = FALSE],
        start, entries)

Start == [st |-> "SUCCESS", left |-> << >>, size |-> 0, gone |-> FALSE]
removeDirectory(t) == traverseDirectory(t, "removeFileDir", Start)
getDirectorySize(t) == traverseDirectory(t, "getFileDirSize", Start)

-----------------------------------------------------------------------------
FilesInit == file = NoFile /\ meant = NoFile /\ tree = << >>

Write(append, b) ==
    LET r == writeFile(file, append, b)
    IN  /\ Len(r.file) <= MaxFile
        /\ file' = r.file
        /\ meant' = IF append /\ meant # NoFile THEN meant \o b ELSE b
        /\ UNCHANGED tree

Update(b, offset) ==
    LET r == updateFile(file, Zeroes(offset) \o b, offset, Len(b))
    IN  /\ Len(r.file) <= MaxFile
        /\ file' = r.file
        /\ meant' = IF r.st = "SUCCESS" THEN Overlaid(meant, offset, b) ELSE meant
        /\ UNCHANGED tree

Resize(n) ==
    /\ file' = setFileLength(file, n).file
    /\ meant' = IF meant = NoFile THEN NoFile ELSE Resized(meant, n)
    /\ UNCHANGED tree

Create(n) == file' = createFile(n).file /\ meant' = Zeroes(n) /\ UNCHANGED tree

Fill(t) == file = NoFile /\ tree = << >> /\ tree' = t /\ UNCHANGED <<file, meant>>

\* A file or a directory is looked at.
FilesNext ==
    \/ /\ tree = << >>
       /\ \/ \E append \in BOOLEAN, b \in Buffers : Write(append, b)
          \/ \E b \in Buffers \ {<< >>}, offset \in 0..MaxFile : Update(b, offset)
          \/ \E n \in 0..MaxFile : Resize(n) \/ Create(n)
    \/ \E t \in Trees : Fill(t)

-----------------------------------------------------------------------------
\* Every entry at any depth.
RECURSIVE Within(_)
Within(t) == FoldLeft(LAMBDA acc, e : acc \o <<e>> \o Within(e.entries), << >>, t)
Obstructs(e) == e.stuck \/ Seen(e) \notin {"file", "dir"}

\* After any sequence of createFile, writeFile, updateFile and setFileLength a file holds the
\* bytes that were meant for it, and readFile, readFileSegment and getFileLength report them;
\* removeDirectory succeeds exactly when nothing at any depth obstructs it, leaves nothing
\* then, and otherwise leaves what obstructs it; getDirectorySize is the sum over all depths.
FilesExact ==
    /\ file = meant
    /\ file # NoFile =>
          /\ getFileLength(file).size = Len(meant)
          /\ \A room \in 1..MaxFile : readFileWithin(file, room).st = "SUCCESS" =>
                Len(meant) <= room /\ readFileWithin(file, room).bytes = meant
          /\ \A offset \in 0..MaxFile, n \in 1..MaxFile :
                LET r == readFileSegment(file, offset, n)
                IN  IF offset + n <= Len(meant) THEN r.st = "SUCCESS" /\ r.bytes = SubSeq(meant, offset + 1, offset + n)
                    ELSE r.st # "SUCCESS"
    /\ LET r == removeDirectory(tree)
           size == getDirectorySize(tree)
           inside == Within(tree)
           obstacles == SelectSeq(inside, Obstructs)
       IN  /\ (r.st = "SUCCESS") = (obstacles = << >>)
           /\ r.st = "SUCCESS" => r.left = << >>
           /\ Len(SelectSeq(Within(r.left), Obstructs)) = Len(obstacles)
           /\ size.left = tree
           /\ size.st = "SUCCESS" => size.size = FoldLeft(LAMBDA n, e : n + e.size, 0, inside)
=============================================================================
