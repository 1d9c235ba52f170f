------------------------------ MODULE Inversion ------------------------------
(***************************************************************************)
(* The negative of a PGM image, cw08/.../zad1: pgm_load, threads that      *)
(* invert the pixels, either every nthr-th or in blocks of columns,        *)
(* pgm_save.  A run may take the output of an earlier one as its input.    *)
(*                                                                         *)
(* A file is its words, "P2", a number or "junk", with whether white space *)
(* follows the last; comments are left out.  Numbers are parsed whole:     *)
(* width, height and max are far from 2^31, a pixel wraps at 256, a        *)
(* uint8_t.                                                                *)
(***************************************************************************)
EXTENDS Integers, SequencesExt

CONSTANTS
  Files,       \* possible inputs
  MaxThreads,  \* bound on THREADS
  MaxRuns      \* bound on the runs

VARIABLES
  file,      \* the input of the next run
  runs,      \* runs so far
  nthr, mode,
  pc,        \* "idle", "create", "join", "save", "failed"
  img,       \* w, h, max, data
  created,   \* threads created
  done,      \* by thread: how many of its pixels it has inverted
  noMemory,  \* malloc failed for a thread's argument
  inputs     \* history: the inputs of the runs

vars == <<file, runs, nthr, mode, pc, img, created, done, noMemory, inputs>>

Threads == 0 .. MaxThreads - 1

-----------------------------------------------------------------------------
Number(word) == word[1] = "number"

\* The loader after some words: state is the next word it wants, n is pixel_i and the
\* pixel it is in.  A number is taken at its first digit; the white space after
\* it allocates the image, or looks at max.
Start == [state |-> "P2", w |-> 0, h |-> 0, max |-> 0, data |-> <<>>, n |-> 0]

\* the word and the white space after it, which only the last word may lack
Word(ld, word, closed) ==
  LET v == word[2] IN
  CASE ld.state = "P2" /\ word[1] = "P2" -> [ld EXCEPT !.state = "WIDTH"]
    [] ld.state = "WIDTH" /\ Number(word) -> [ld EXCEPT !.state = "HEIGHT", !.w = v]
    [] ld.state = "HEIGHT" /\ Number(word) ->
         [ld EXCEPT !.h = v, !.state = IF closed THEN "MAX" ELSE "HEIGHT",
                    !.data = IF closed THEN [i \in 1 .. ld.w * v |-> 0] ELSE <<>>]
    [] ld.state = "MAX" /\ Number(word) ->
         [ld EXCEPT !.max = v, !.state = IF closed /\ v > 255 THEN "ERR" ELSE "PIXEL"]
    [] ld.state = "PIXEL" /\ Number(word) /\ ld.n < ld.w * ld.h ->
         [ld EXCEPT !.data[ld.n + 1] = v % 256, !.n = @ + (IF closed THEN 1 ELSE 0)]
    [] OTHER -> [ld EXCEPT !.state = "ERR"]

\* the loader after each number of words
After(f) ==
  LET after[k \in 0 .. Len(f.words)] ==
        IF k = 0 THEN Start
        ELSE Word(after[k - 1], f.words[k], k < Len(f.words) \/ f.closed)
  IN  after

\* the image is there and its last pixel has been seen, or begun, or is missing
pgm_load(f) ==
  LET ld == After(f)[Len(f.words)] IN
  [ok |-> ld.state \in {"MAX", "PIXEL"} /\ ld.w * ld.h \in {ld.n, ld.n + 1},
   w |-> ld.w, h |-> ld.h, max |-> ld.max, data |-> ld.data]

NumberWord(v) == <<"number", v>>

pgm_save(im) ==
  [words |-> <<<<"P2", 0>>, NumberWord(im.w), NumberWord(im.h), NumberWord(im.max)>>
             \o [i \in DOMAIN im.data |-> NumberWord(im.data[i])],
   closed |-> TRUE]
-----------------------------------------------------------------------------
Init ==
  /\ file \in Files /\ runs = 0 /\ pc = "idle" /\ nthr = 1 /\ mode = "numbers"
  /\ img = [w |-> 0, h |-> 0, max |-> 0, data |-> <<>>]
  /\ created = 0 /\ done = [t \in Threads |-> 0] /\ noMemory = FALSE /\ inputs = <<>>

\* main, up to the threads
Loads ==
  /\ pc = "idle" /\ runs < MaxRuns /\ runs' = runs + 1
  /\ nthr' \in 1 .. MaxThreads /\ mode' \in {"numbers", "block"}
  /\ LET im == pgm_load(file) IN
     IF im.ok
     THEN /\ pc' = "create" /\ inputs' = Append(inputs, file)
          /\ img' = [w |-> im.w, h |-> im.h, max |-> im.max, data |-> im.data]
     ELSE pc' = "failed" /\ UNCHANGED <<img, inputs>>
  /\ created' = 0 /\ done' = [t \in Threads |-> 0]
  /\ UNCHANGED <<file, noMemory>>

\* invert_1 and invert_2: without memory for a thread's argument they do with fewer
Creates ==
  /\ pc = "create"
  /\ \/ created < nthr /\ created' = created + 1 /\ UNCHANGED <<pc, noMemory>>
     \/ created = nthr /\ pc' = "join" /\ UNCHANGED <<created, noMemory>>
     \/ created < nthr /\ pc' = "join" /\ noMemory' = TRUE /\ UNCHANGED created
  /\ UNCHANGED <<file, runs, nthr, mode, img, done, inputs>>

\* mutant: the block width is rounded down
BlockWidth_Down(w, n) == w \div n

BlockWidth(w, n) == (w + n - 1) \div n

\* the columns of a thread's block: the last blocks may be narrow or empty
Columns(t) ==
  LET b == BlockWidth(img.w, nthr) IN
  IF (t + 1) * b <= img.w THEN b ELSE IF t * b <= img.w THEN img.w - t * b ELSE 0

\* how many pixels a thread has, and its k-th: every nthr-th, or its columns from the left
Count(t) ==
  IF mode = "numbers" THEN (img.w * img.h + nthr - 1 - t) \div nthr ELSE Columns(t) * img.h

Pixel(t, k) ==
  IF mode = "numbers" THEN t + (k - 1) * nthr
  ELSE ((k - 1) % img.h) * img.w + (t * BlockWidth(img.w, nthr) + (k - 1) \div img.h)

\* invert_task: the next pixel of the thread
invert_task(t) ==
  /\ pc \in {"create", "join"} /\ t < created /\ done[t] < Count(t)
  /\ LET i == Pixel(t, done[t] + 1) IN
     img' = [img EXCEPT !.data[i + 1] = (img.max - @) % 256]
  /\ done' = [done EXCEPT ![t] = @ + 1]
  /\ UNCHANGED <<file, runs, nthr, mode, pc, created, noMemory, inputs>>

\* the joins
Joins ==
  /\ pc = "join" /\ \A t \in 0 .. created - 1 : done[t] = Count(t)
  /\ pc' = "save"
  /\ UNCHANGED <<file, runs, nthr, mode, img, created, done, noMemory, inputs>>

Saves ==
  /\ pc = "save" /\ file' = pgm_save(img) /\ pc' = "idle"
  /\ UNCHANGED <<runs, nthr, mode, img, created, done, noMemory, inputs>>

Main == Creates \/ Joins \/ Saves
Next == Loads \/ Main \/ \E t \in Threads : invert_task(t)

Spec == Init /\ [][Next]_vars

-----------------------------------------------------------------------------
\* what a loaded file shows, by pixel, if it has the word
Has(f, i) == i + 4 \in DOMAIN f.words
Shown(f, i) == IF Has(f, i) THEN f.words[i + 4][2] % 256 ELSE 0

\* Unless memory ran out, every pixel of the file that is saved is the inverse of that of the
\* input, however many threads there were in either mode, and a second run restores the
\* input.  Only the last pixel may be missing in an input, and counts as 0.
SavedIsInverted ==
  pc = "idle" /\ inputs # <<>> /\ ~noMemory =>
    LET before == Last(inputs)
        im == pgm_load(before)
        size == im.w * im.h
    IN  /\ Len(file.words) = 4 + size
        /\ \A i \in 1 .. size : Has(before, i) \/ i = size
        /\ \A i \in 1 .. size : (Shown(before, i) + Shown(file, i)) % 256 = im.max % 256
        /\ Len(inputs) = 2 => \A i \in 1 .. size : Shown(file, i) = Shown(inputs[1], i)
=============================================================================
