------------------------------- MODULE Texts -------------------------------
(***************************************************************************)
(* Texts as sequences of characters, and the methods of Rust's `str` that  *)
(* template.rs and gateway.rs take them apart with.  A character is a      *)
(* value of its own, so that what is a delimiter can be told from what is  *)
(* only text.                                                              *)
(***************************************************************************)
EXTENDS SequencesExt, Integers

StartsWith(text, c) == text # <<>> /\ Head(text) = c

From(text, i) == SubSeq(text, i, Len(text))
UpTo(text, i) == SubSeq(text, 1, i)

(* `str::find` of the first of some characters: all up to it is a prefix   *)
(* of this length.                                                         *)
PrefixBefore(text, C) ==
  LET i == SelectInSeq(text, LAMBDA c : c \in C)
  IN IF i = 0 THEN Len(text) ELSE i - 1

(* `str::split`: a separator ends a part and begins the next, any other    *)
(* character belongs to the last part so far.                              *)
Extend(parts, c) == [parts EXCEPT ![Len(parts)] = Append(@, c)]

split(text, sep) ==
  LET parts[i \in 0..Len(text)] ==
        IF i = 0 THEN <<<<>>>>
        ELSE IF text[i] = sep THEN Append(parts[i - 1], <<>>)
        ELSE Extend(parts[i - 1], text[i])
  IN parts[Len(text)]

(* `str::split_once`, with what stands for the second part if there is no  *)
(* separator.                                                              *)
split_once(text, sep, otherwise) ==
  LET i == PrefixBefore(text, {sep})
  IN <<UpTo(text, i), IF i < Len(text) THEN From(text, i + 2) ELSE otherwise>>

(* The inverse of split. *)
Join(parts, sep) == Tail(FlattenSeq([k \in DOMAIN parts |-> <<sep>> \o parts[k]]))
=============================================================================
