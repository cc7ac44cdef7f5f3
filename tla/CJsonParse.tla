------------------------------ MODULE CJsonParse ------------------------------
(***************************************************************************)
(* cJSON_Parse: a text becomes a tree.  parse_value, parse_array and       *)
(* parse_object call each other; their frames are the stack.  A list is in *)
(* the tree only when its end was read: until then only the frame knows    *)
(* it, and a failure must free it on the way out.                          *)
(*                                                                         *)
(* What follows a complete value is not looked at.  White space is left    *)
(* out, as from the printed text.                                          *)
(***************************************************************************)
EXTENDS CJson

CONSTANT NestingLimit  \* CJSON_NESTING_LIMIT, 1000 in the code

VARIABLES
  step,    \* what is parsed next
  input,   \* the tokens; the terminator follows the last
  pos,
  heap,    \* the memory of the receiver
  item,    \* of cJSON_ParseWithLengthOpts
  frames   \* what is being parsed: the item, its kind, head and current_item

parseVars == <<step, input, pos, heap, item, frames>>

ParseInit ==
  /\ step = "idle" /\ input = <<>> /\ pos = 1
  /\ heap = NoItems /\ item = NULL /\ frames = <<>>

Sees(token) == pos <= Len(input) /\ input[pos].is = token
Inner == frames[Len(frames)]
Outer == SubSeq(frames, 1, Len(frames) - 1)
Target == IF frames = <<>> THEN item ELSE Inner.current
Closing == [array |-> "]", object |-> "}"]
Opening == [array |-> "[", object |-> "{"]
-----------------------------------------------------------------------------
BeginParse(tokens) ==
  /\ input' = tokens /\ pos' = 1 /\ frames' = <<>>
  /\ \/ /\ Succeeds /\ step' = "value" /\ item' = NewAddress(heap)
        /\ heap' = cJSON_New_Item(heap, "invalid", 0)
     \/ Fails /\ step' = "fail" /\ item' = NULL /\ heap' = heap

Take(next) == pos' = pos + 1 /\ step' = next /\ UNCHANGED <<input, item>>
GiveUp == step' = "fail" /\ UNCHANGED <<input, pos, heap, item, frames>>

\* parse_number, and null.
ParseScalar ==
  /\ step = "value" /\ (Sees("number") \/ Sees("null"))
  /\ heap' = [heap EXCEPT ![Target].type = input[pos].is,
                          ![Target].value = input[pos].value]
  /\ frames' = frames /\ Succeeds /\ Take("after")

\* parse_string of a value.
ParseString ==
  /\ step = "value" /\ Sees("string")
  /\ \/ /\ heap' = [heap EXCEPT ![Target].type = "string",
                                ![Target].value = input[pos].value]
        /\ frames' = frames /\ Succeeds /\ Take("after")
     \/ Fails /\ GiveUp

\* parse_array and parse_object, up to their first element.
Enter(kind) ==
  /\ step = "value" /\ Sees(Opening[kind]) /\ Len(frames) < NestingLimit
  /\ frames' = Append(frames, [of |-> Target, kind |-> kind,
                               head |-> NULL, current |-> NULL])
  /\ heap' = heap /\ Succeeds /\ Take("first")

\* No value begins here, or it is nested too deep.
NotAValue ==
  /\ step = "value"
  /\ ~\E token \in {"number", "null", "string"} : Sees(token)
  /\ ~\E kind \in DOMAIN Opening : Sees(Opening[kind]) /\ Len(frames) < NestingLimit
  /\ Succeeds /\ GiveUp

\* The next item of the list.
NewElement ==
  /\ \/ step = "element"
     \/ step = "first" /\ ~Sees(Closing[Inner.kind])
  /\ \/ LET h == cJSON_New_Item(heap, "invalid", 0)
            new == NewAddress(heap)
        IN /\ HasRoom(heap)
           /\ heap' = IF Inner.head = NULL THEN h ELSE suffix_object(h, Inner.current, new)
           /\ frames' = Append(Outer, [Inner EXCEPT
                !.head = IF @ = NULL THEN new ELSE @, !.current = new])
           /\ step' = IF Inner.kind = "object" THEN "name" ELSE "value"
           /\ Succeeds /\ UNCHANGED <<input, pos, item>>
     \/ Fails /\ GiveUp

\* parse_string of a name, and the colon.
ParseName ==
  /\ step = "name" /\ Sees("string")
  /\ \/ /\ heap' = [heap EXCEPT ![Inner.current].key = input[pos].name,
                                ![Inner.current].type = "string"]
        /\ frames' = frames /\ Succeeds /\ Take("colon")
     \/ Fails /\ GiveUp

PassColon ==
  /\ step = "colon" /\ Sees(":")
  /\ UNCHANGED <<heap, frames>> /\ Succeeds /\ Take("value")

PassComma ==
  /\ step = "after" /\ frames # <<>> /\ Sees(",")
  /\ UNCHANGED <<heap, frames>> /\ Succeeds /\ Take("element")

\* The label success: the list becomes the child of its item.
Leave ==
  /\ step \in {"first", "after"} /\ frames # <<>> /\ Sees(Closing[Inner.kind])
  /\ heap' = [a \in DOMAIN heap |->
       CASE a = Inner.of -> [heap[a] EXCEPT !.type = Inner.kind, !.child = Inner.head]
         [] a # Inner.of /\ a = Inner.head -> [heap[a] EXCEPT !.prev = Inner.current]
         [] OTHER -> heap[a]]
  /\ frames' = Outer /\ Succeeds /\ Take("after")

Unexpected ==
  /\ \/ step = "name" /\ ~Sees("string")
     \/ step = "colon" /\ ~Sees(":")
     \/ step = "after" /\ frames # <<>> /\ ~Sees(",") /\ ~Sees(Closing[Inner.kind])
  /\ Succeeds /\ GiveUp

\* Mutant: the list of the frame is not freed.
FailList_Keeps ==
  /\ step = "fail" /\ frames # <<>> /\ frames' = Outer /\ Succeeds
  /\ UNCHANGED <<step, input, pos, heap, item>>

\* The label fail of parse_array and parse_object, then that of the parser.
FailList ==
  /\ step = "fail" /\ frames # <<>>
  /\ heap' = cJSON_Delete(heap, Inner.head)
  /\ frames' = Outer /\ Succeeds /\ UNCHANGED <<step, input, pos, item>>

FailParse ==
  /\ step = "fail" /\ frames = <<>>
  /\ heap' = cJSON_Delete(heap, item) /\ item' = NULL /\ step' = "parsed"
  /\ Succeeds /\ UNCHANGED <<input, pos, frames>>

FinishParse ==
  /\ step = "after" /\ frames = <<>> /\ step' = "parsed"
  /\ Succeeds /\ UNCHANGED <<input, pos, heap, item, frames>>

ParseStep ==
  \/ ParseScalar \/ ParseString \/ (\E kind \in DOMAIN Opening : Enter(kind))
  \/ NotAValue \/ NewElement \/ ParseName \/ PassColon \/ PassComma \/ Leave
  \/ Unexpected \/ FailList \/ FailParse \/ FinishParse
=============================================================================
