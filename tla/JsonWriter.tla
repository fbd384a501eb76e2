----------------------------- MODULE JsonWriter -----------------------------
(***************************************************************************)
(* json::writer (include/reflgen/json/writer.h). The output is a sequence  *)
(* of tokens: punctuation, whitespace and the text of one scalar. A string *)
(* that is not UTF-8 is refused only after begin_value or separate has run,*)
(* so the refused call leaves its mark on the writer.                      *)
(***************************************************************************)
EXTENDS Integers, Sequences

CONSTANTS MaxDepth,     \* max_depth_ of the writer and of the reader
          Indent,       \* whether indent_ is greater than zero
          Texts,        \* strings and keys the caller writes
          Malformed,    \* those that are not UTF-8
          Numbers,      \* integers the caller writes
          MaxTokens     \* bound on the length of the output

WriterAssumption ==
    /\ MaxDepth \in Nat
    /\ Indent \in BOOLEAN
    /\ Malformed \subseteq Texts
    /\ Numbers \subseteq Int
    /\ MaxTokens \in Nat

VARIABLES output, stack, root_started, inline_next,
          refused       \* history: a call threw after it had changed the writer

wvars == <<output, stack, root_started, inline_next, refused>>

Frame == [is_object : BOOLEAN, has_items : BOOLEAN,
          awaiting_value : BOOLEAN, is_inline : BOOLEAN]

Punct(c) == [kind |-> c, value |-> 0]
Space == Punct("space")
Token(kind, value) == [kind |-> kind, value |-> value]

Top == stack[Len(stack)]

WInit ==
    /\ output = <<>>
    /\ stack = <<>>
    /\ root_started = FALSE
    /\ inline_next = FALSE
    /\ refused = FALSE

complete == root_started /\ stack = <<>>

-----------------------------------------------------------------------------
newline == IF Indent THEN <<Space>> ELSE <<>>

\* separate(): comma and line break in front of an element or a key.
Separator ==
    (IF Top.has_items
     THEN <<Punct("comma")>> \o (IF Top.is_inline THEN newline ELSE <<>>)
     ELSE <<>>)
    \o (IF Top.is_inline THEN <<>> ELSE newline)

\* begin_value accepts a value, what it writes and the frames it leaves.
CanBegin ==
    IF stack = <<>> THEN ~root_started ELSE Top.is_object => Top.awaiting_value
Lead == IF stack = <<>> \/ Top.is_object THEN <<>> ELSE Separator
Begun ==
    IF stack = <<>> THEN stack
    ELSE [stack EXCEPT ![Len(stack)] =
             IF @.is_object THEN [@ EXCEPT !.awaiting_value = FALSE]
                            ELSE [@ EXCEPT !.has_items = TRUE]]

Emit(tokens) ==
    /\ Len(output) + Len(tokens) <= MaxTokens
    /\ output' = output \o tokens

Write(token) ==
    /\ CanBegin
    /\ Emit(Append(Lead, token))
    /\ stack' = Begun
    /\ root_started' = TRUE
    /\ UNCHANGED <<inline_next, refused>>

write_null == Write(Token("null", 0))
write_bool == Write(Token("bool", 0))
\* write_int and write_uint print the same digits.
write_int == \E value \in Numbers : Write(Token("int", value))
\* append_floating throws for NaN and infinity before begin_value.
write_float == \E value \in Numbers : Write(Token("float", value))
\* The value of a string token is 1 for base64 text and 0 for any other.
write_bytes == Write(Token("string", 1))

\* validate_utf8 throws from append_quoted, behind begin_value.
write_string ==
    \E value \in Texts :
        IF value \notin Malformed THEN Write(Token("string", 0))
        ELSE /\ CanBegin
             /\ Emit(Lead)
             /\ stack' = Begun
             /\ root_started' = TRUE
             /\ refused' = TRUE
             /\ UNCHANGED inline_next

prefer_inline ==
    /\ inline_next' = TRUE
    /\ UNCHANGED <<output, stack, root_started, refused>>

\* check_depth, begin_value, the bracket and push_frame().
Open(is_object, bracket) ==
    /\ Len(stack) < MaxDepth
    /\ CanBegin
    /\ Emit(Append(Lead, Punct(bracket)))
    /\ stack' = Append(Begun,
            [is_object |-> is_object, has_items |-> FALSE, awaiting_value |-> FALSE,
             is_inline |-> inline_next \/ (stack # <<>> /\ Top.is_inline)])
    /\ root_started' = TRUE
    /\ inline_next' = FALSE
    /\ UNCHANGED refused

begin_array == Open(FALSE, "array")
begin_object == Open(TRUE, "object")

CanKey == stack # <<>> /\ Top.is_object /\ ~Top.awaiting_value

\* A key that is not UTF-8 is refused behind its separator.
write_key ==
    /\ CanKey
    /\ \E key \in Texts :
           IF key \in Malformed
           THEN Emit(Separator) /\ refused' = TRUE /\ UNCHANGED stack
           ELSE /\ Emit(Separator \o <<Token("string", 0), Punct("colon")>>
                        \o newline)
                /\ stack' = [stack EXCEPT ![Len(stack)] =
                        [@ EXCEPT !.has_items = TRUE, !.awaiting_value = TRUE]]
                /\ UNCHANGED refused
    /\ UNCHANGED <<root_started, inline_next>>

Close(bracket) ==
    /\ Emit((IF Top.has_items /\ ~Top.is_inline THEN newline ELSE <<>>)
            \o <<Punct(bracket)>>)
    /\ stack' = SubSeq(stack, 1, Len(stack) - 1)
    /\ UNCHANGED <<root_started, inline_next, refused>>

end_array == stack # <<>> /\ ~Top.is_object /\ Close("array_end")
end_object == CanKey /\ Close("object_end")

WNext ==
    \/ write_null \/ write_bool \/ write_int \/ write_float
    \/ write_string \/ write_bytes \/ prefer_inline
    \/ begin_array \/ end_array \/ begin_object \/ write_key \/ end_object
=============================================================================
