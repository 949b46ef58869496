------------------------------- MODULE Editor -------------------------------
(***************************************************************************)
(* text_editor/document.c and editor.c: a document is a sequence of lines, *)
(* a line a sequence of characters; the handlers of the editor's commands  *)
(* change it and save it to a file that a later session reads back.        *)
(* Locations come from the caller: a position within the line they name.   *)
(***************************************************************************)
EXTENDS Naturals, Sequences, SequencesExt, FiniteSetsExt

CONSTANTS Typed,         \* texts the user types for insert, append and write
          Searched,      \* texts the user looks for
          MaxLines,      \* bound: lines of the document
          MaxLineLen     \* bound: characters in a line

VARIABLES document, file

editorVars == <<document, file>>

BACKSLASH == "\\"
NEWLINE   == "newline"     \* one character

EditorInit == document = <<>> /\ file = <<>>    \* no file: document_create

document_size == Len(document)

document_get_line(d, n)      == d[n]
document_set_line(d, n, str) == [d EXCEPT ![n] = str]
document_delete_line(d, n)   == RemoveAt(d, n)

(* Past the end the gap is filled with empty lines. *)
document_insert_line(d, n, str) ==
    LET filled == IF n > Len(d) THEN d \o [k \in 1..(n - 1 - Len(d)) |-> <<>>] ELSE d
    IN  InsertAt(filled, n, str)

(* Lines follow one another from n + 1 on. *)
InsertLines(d, n, lines) ==
    FoldLeft(LAMBDA acc, k : document_insert_line(acc, n + k, lines[k]), d,
             [k \in DOMAIN lines |-> k])

(* strsep at every newline: one more piece than there are newlines. *)
Pieces(s) ==
    FoldLeft(LAMBDA acc, c : IF c = NEWLINE THEN Append(acc, <<>>)
                             ELSE Append(Front(acc), Append(Last(acc), c)), <<<<>>>>, s)

(* append's loop: what a backslash makes of the next character. *)
AppendUnescape(s) ==
    LET out[i \in Nat] ==
            IF i > Len(s) THEN <<>>
            ELSE IF s[i] # BACKSLASH THEN <<s[i]>> \o out[i + 1]
            ELSE IF i = Len(s) THEN <<>>
            ELSE <<IF s[i + 1] = "n" THEN NEWLINE ELSE s[i + 1]>> \o out[i + 2]
    IN  out[1]

(* write's loop: the rest of the text moves over the backslash, and the    *)
(* loop goes on behind the character that took its place.                  *)
WriteUnescape(s) ==
    LET step[i \in Nat] ==
            [t \in Seq(Range(s) \cup {NEWLINE}) |->
                IF i > Len(t) THEN t
                ELSE IF t[i] # BACKSLASH THEN step[i + 1][t]
                ELSE IF i < Len(t) /\ t[i + 1] = "n"
                     THEN step[i + 1][[RemoveAt(t, i) EXCEPT ![i] = NEWLINE]]
                ELSE step[i + 1][RemoveAt(t, i)]]
    IN  step[1][s]

-----------------------------------------------------------------------------
handle_insert_command(n, idx, line) ==
    /\ document' = IF document_size < n THEN document_insert_line(document, n, line)
                   ELSE [document EXCEPT ![n] = SubSeq(@, 1, idx) \o line \o SubSeq(@, idx + 1, Len(@))]
    /\ UNCHANGED file

WithLine(n) == IF n > document_size THEN document_insert_line(document, n, <<>>) ELSE document

handle_append_command(n, line) ==
    LET v == Pieces(AppendUnescape(line)) IN
    /\ document' = InsertLines([WithLine(n) EXCEPT ![n] = @ \o v[1]], n, Tail(v))
    /\ UNCHANGED file

handle_write_command(n, line) ==
    LET v == Pieces(WriteUnescape(line)) IN
    /\ document' = InsertLines(document_set_line(WithLine(n), n, v[1]), n, Tail(v))
    /\ UNCHANGED file

handle_delete_command(n, idx, num_chars) ==
    /\ n <= document_size
    /\ document' = [document EXCEPT ![n] =
                      IF idx + num_chars >= Len(@) THEN SubSeq(@, 1, idx)
                      ELSE SubSeq(@, 1, idx) \o SubSeq(@, idx + num_chars + 1, Len(@))]
    /\ UNCHANGED file

handle_delete_line(n) ==
    /\ n <= document_size
    /\ document' = document_delete_line(document, n)
    /\ UNCHANGED file

handle_merge_line(n) ==
    /\ n < document_size
    /\ document' = document_delete_line(
         document_set_line(document, n, document[n] \o document_get_line(document, n + 1)), n + 1)
    /\ UNCHANGED file

handle_split_line(n, idx) ==
    /\ idx < Len(document[n])
    /\ LET temp == document_get_line(document, n) IN
       document' = document_set_line(
                      document_insert_line(document, n + 1, SubSeq(temp, idx + 1, Len(temp))),
                      n, SubSeq(temp, 1, idx))
    /\ UNCHANGED file

(* document_write_to_file: every line and a newline. *)
Written(d) == FlattenSeq([k \in DOMAIN d |-> Append(d[k], NEWLINE)])

handle_save_command ==
    /\ file' = Written(document)
    /\ UNCHANGED document

(* document_create_from_file: getline until the end, newlines cut off. *)
ReadBack(f) == LET p == Pieces(f) IN IF Last(p) = <<>> THEN Front(p) ELSE p

handle_create_document ==
    /\ document' = ReadBack(file)
    /\ UNCHANGED file

(* The first match of s in line t behind index from (an index, or "none"). *)
Matches(t, s, from) ==
    {k \in from..(Len(t) - 1) : k + Len(s) <= Len(t) /\ SubSeq(t, k + 1, k + Len(s)) = s}

NotFound == [line_no |-> 0, idx |-> 0]

SearchStopsAtEnd(n, idx, s) ==    \* mutant: no walk around the end
    LET From(i) == IF i > n \/ idx >= Len(document[i]) THEN 0 ELSE idx + 1
        hits    == {i \in n..document_size : Matches(document[i], s, From(i)) # {}}
    IN  IF s = <<>> \/ hits = {} THEN NotFound
        ELSE [line_no |-> Min(hits), idx |-> Min(Matches(document[Min(hits)], s, From(Min(hits))))]

handle_search_command(n, idx, s) ==
    LET LineAt(i) == IF i > document_size THEN i - document_size ELSE i
        \* where strstr starts in the i-th line looked at
        From(i)   == IF i > n \/ idx >= Len(document[LineAt(i)]) THEN 0 ELSE idx + 1
        hits      == {i \in n..(n + document_size - 1) :
                        Matches(document[LineAt(i)], s, From(i)) # {}}
    IN  IF s = <<>> \/ hits = {} THEN NotFound
        ELSE LET i == Min(hits) IN
             [line_no |-> LineAt(i), idx |-> Min(Matches(document[LineAt(i)], s, From(i)))]

Fits(d) == Len(d) <= MaxLines /\ \A k \in DOMAIN d : Len(d[k]) <= MaxLineLen

EditorNext ==
    /\ \/ \E n \in 1..(document_size + 2), line \in Typed :
             \/ handle_append_command(n, line)
             \/ handle_write_command(n, line)
             \/ \E idx \in IF n > document_size THEN {0} ELSE 0..Len(document[n]) :
                   handle_insert_command(n, idx, SelectSeq(line, LAMBDA c : c # BACKSLASH))
       \/ \E n \in 1..document_size :
             \/ handle_delete_line(n)
             \/ handle_merge_line(n)
             \/ \E idx \in 0..Len(document[n]) :
                   handle_split_line(n, idx) \/ handle_delete_command(n, idx, 1)
       \/ handle_save_command
       \/ handle_create_document
    /\ Fits(document')

-----------------------------------------------------------------------------
(* What is saved is read back as the same document, whatever commands made *)
(* it: no line ever holds a newline.  The two ways of reading escapes, by  *)
(* moving the text and by copying it, agree.                                *)
EditorRoundTrips ==
    /\ ReadBack(Written(document)) = document
    /\ \A s \in Typed \cup Range(document) : AppendUnescape(s) = WriteUnescape(s)

(* A search returns a true match, and finds none only where every match in *)
(* the document is in the line it started in, at or before its start: the  *)
(* walk around the end of the document skips no line.                      *)
SearchFindsMatches ==
    \A n \in 1..document_size, s \in Searched :
      \A idx \in 0..Len(document[n]) :
        LET r == handle_search_command(n, idx, s) IN
        IF r # NotFound THEN r.idx \in Matches(document[r.line_no], s, 0)
        ELSE s # <<>> => \A k \in 1..document_size :
                           \A i \in Matches(document[k], s, 0) : k = n /\ i <= idx

(* No command of the editor loses text: a document saved is read back as   *)
(* it was, what was typed is what is stored, and a search finds it.        *)
EditorKeepsText == EditorRoundTrips /\ SearchFindsMatches

=============================================================================
