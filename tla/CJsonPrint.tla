------------------------------ MODULE CJsonPrint ------------------------------
(***************************************************************************)
(* cJSON_Print: a tree is written into a buffer that grows.  Each piece of *)
(* text has room ensured for it first, then it is written at the offset.   *)
(* Numbers advance the offset by their length; what is written for names,  *)
(* strings, arrays and objects is found by its terminator afterwards       *)
(* (update_offset).                                                        *)
(*                                                                         *)
(* The text is a sequence of tokens without the white space, which nothing *)
(* reads; lengths are those of the characters, white space included.       *)
(***************************************************************************)
EXTENDS CJson

CONSTANTS
  DefaultBufferSize,  \* 256 in the code
  IntMax,             \* INT_MAX
  Widths              \* characters of a name, a string or a number

ASSUME PrintAssumption ==
  DefaultBufferSize \in Nat \ {0} /\ IntMax \in Nat /\ Widths \subseteq Nat

VARIABLES
  todo,    \* what is printed next
  stack,   \* the arrays and objects begun, each with its element that is next
  length,  \* of the buffer; 0 without one
  offset,
  end,     \* where the last piece of text was terminated, or Unterminated
  extent,  \* characters of the buffer that were ever written
  text     \* the tokens

printVars == <<todo, stack, length, offset, end, extent, text>>

Unterminated == -1

Token(is, value) == [is |-> is, name |-> NoKey, value |-> value]
Mark(is) == Token(is, 0)
Name(name) == [is |-> "string", name |-> name, value |-> 0]
NotFinite(value) == value < 0

PrintInit ==
  /\ todo = "idle" /\ stack = <<>> /\ text = <<>>
  /\ length = 0 /\ offset = 0 /\ end = Unterminated /\ extent = 0

Innermost == stack[Len(stack)]
depth == Len(stack)
With(child) == [stack EXCEPT ![Len(stack)].child = child]
-----------------------------------------------------------------------------
\* ensure(needed), at an offset: the length it makes the buffer, and whether
\* it refuses to.
\* Mutant of Total: what was written before is forgotten.
Total_OfThePiece(from, needed) == needed + 1

Total(from, needed) == needed + from + 1
Ensured(from, needed) ==
  IF Total(from, needed) <= length THEN length
  ELSE IF Total(from, needed) > IntMax \div 2 THEN IntMax
  ELSE 2 * Total(from, needed)
Refused(from, needed) ==
  \/ from >= length \/ needed > IntMax
  \/ Total(from, needed) > length /\ Total(from, needed) > IntMax

(***************************************************************************)
(* A piece of text of n characters, its terminator included if it has one: *)
(* the room for it is ensured, it is written, and the offset advanced.     *)
(***************************************************************************)
Written(from, needed, n, terminated, advance) ==
  /\ ~Refused(from, needed)
  /\ length' = Ensured(from, needed)
  /\ extent' = IF from + n > extent THEN from + n ELSE extent
  /\ end' = IF terminated THEN from + n - 1 ELSE Unterminated
  /\ offset' = from + advance
  /\ Succeeds

\* No room: refused, or realloc failed and the buffer was freed.
NoRoom(from, needed) ==
  /\ \/ Refused(from, needed) /\ length' = length /\ Succeeds
     \/ /\ ~Refused(from, needed) /\ Ensured(from, needed) # length
        /\ Fails /\ length' = 0
  /\ todo' = "failed"
  /\ UNCHANGED <<stack, offset, end, extent, text>>

Write(from, needed, n, terminated, advance, tokens, next, frames) ==
  \/ /\ Written(from, needed, n, terminated, advance)
     /\ text' = text \o tokens /\ todo' = next /\ stack' = frames
  \/ NoRoom(from, needed)

\* print: the first buffer; print_value refuses that there is no item.
BeginPrint(root) ==
  \/ /\ Succeeds /\ length' = DefaultBufferSize
     /\ todo' = IF root = NULL THEN "failed" ELSE "value"
     /\ UNCHANGED <<stack, offset, end, extent, text>>
  \/ /\ Fails /\ todo' = "failed"
     /\ UNCHANGED <<stack, length, offset, end, extent, text>>

Printed(root) == IF stack = <<>> THEN root ELSE Innermost.child

\* print_number.
PrintNumber(h, a) ==
  /\ todo = "value" /\ Is(h, a, "number")
  /\ \E width \in Widths :
       Write(offset, width + 1, width + 1, TRUE, width,
             <<IF NotFinite(h[a].value) THEN Mark("null") ELSE Token("number", h[a].value)>>,
             "after", stack)

\* print_string_ptr, of a string and of the name of an element.
PrintString(h, a) ==
  /\ todo = "value" /\ Is(h, a, "string")
  /\ \E width \in Widths :
       Write(offset, width + 3, width + 3, TRUE, 0,
             <<Token("string", h[a].value)>>, "after", stack)

PrintName(h) ==
  /\ todo = "name"
  /\ \E width \in Widths :
       Write(offset, width + 3, width + 3, TRUE, 0,
             <<Name(h[Innermost.child].key)>>, "colon", stack)

OpenArray(h, a) ==
  /\ todo = "value" /\ Is(h, a, "array")
  /\ Write(offset, 1, 1, FALSE, 1, <<Mark("[")>>, "element",
           Append(stack, [of |-> a, child |-> h[a].child]))

OpenObject(h, a) ==
  /\ todo = "value" /\ Is(h, a, "object")
  /\ Write(offset, 3, 2, FALSE, 2, <<Mark("{")>>, "element",
           Append(stack, [of |-> a, child |-> h[a].child]))

\* The loops along the elements: of an object, each is indented.
NextOfArray(h) ==
  /\ todo = "element" /\ Innermost.child # NULL /\ Is(h, Innermost.of, "array")
  /\ todo' = "value" /\ Succeeds
  /\ UNCHANGED <<stack, length, offset, end, extent, text>>

Indent(h) ==
  /\ todo = "element" /\ Innermost.child # NULL /\ Is(h, Innermost.of, "object")
  /\ Write(offset, depth, depth, FALSE, depth, <<>>, "name", stack)

CloseArray(h) ==
  /\ todo = "element" /\ Innermost.child = NULL /\ Is(h, Innermost.of, "array")
  /\ Write(offset, 2, 2, TRUE, 0, <<Mark("]")>>, "after", SubSeq(stack, 1, depth - 1))

CloseObject(h) ==
  /\ todo = "element" /\ Innermost.child = NULL /\ Is(h, Innermost.of, "object")
  /\ Write(offset, depth + 1, depth + 1, TRUE, 0, <<Mark("}")>>, "after", SubSeq(stack, 1, depth - 1))

\* update_offset, then the colon after a name.
Colon ==
  /\ todo = "colon"
  /\ Write(end, 2, 2, FALSE, 2, <<Mark(":")>>, "value", stack)

\* update_offset after a value, then the comma if another follows.
Comma(h) ==
  /\ todo = "after" /\ stack # <<>>
  /\ LET next == h[Innermost.child].next
         comma == IF next = NULL THEN <<>> ELSE <<Mark(",")>>
     IN IF Is(h, Innermost.of, "object")
        THEN Write(end, Len(comma) + 2, Len(comma) + 2, TRUE, Len(comma) + 1,
                   comma, "element", With(next))
        ELSE \/ /\ next # NULL
                /\ Write(end, 3, 3, TRUE, 2, comma, "element", With(next))
             \/ /\ next = NULL /\ offset' = end
                /\ todo' = "element" /\ stack' = With(next) /\ Succeeds
                /\ UNCHANGED <<length, end, extent, text>>

\* The whole tree is printed: update_offset, and the buffer is cut to size.
FinishPrint ==
  /\ todo = "after" /\ stack = <<>>
  /\ \/ Succeeds /\ todo' = "printed" /\ length' = end + 1
     \/ Fails /\ todo' = "failed" /\ length' = length
  /\ offset' = end
  /\ UNCHANGED <<stack, end, extent, text>>

\* The label fail of print: the buffer is freed, and NULL is returned.
FailPrint ==
  /\ todo = "failed" /\ todo' = "idle" /\ length' = 0
  /\ stack' = <<>> /\ offset' = 0 /\ end' = Unterminated /\ extent' = 0
  /\ text' = <<>> /\ Succeeds

PrintStep(h, root) ==
  LET a == Printed(root)
  IN \/ PrintNumber(h, a) \/ PrintString(h, a) \/ OpenArray(h, a) \/ OpenObject(h, a)
     \/ PrintName(h) \/ NextOfArray(h) \/ Indent(h) \/ CloseArray(h) \/ CloseObject(h)
     \/ Colon \/ Comma(h) \/ FinishPrint \/ FailPrint

(***************************************************************************)
(* Nothing is written behind the buffer, and whenever the offset is to be  *)
(* updated there is a terminator in the buffer for strlen to find.         *)
(***************************************************************************)
PrintStaysInside ==
  /\ length > 0 => extent <= length
  /\ todo \in {"colon", "after"} => offset <= end /\ end < extent /\ length > 0
=============================================================================
