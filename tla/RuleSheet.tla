----------------------------- MODULE RuleSheet -----------------------------
(***************************************************************************)
(* What a document handler that builds a stylesheet is for: a rule that is *)
(* ended is kept, with its declarations, in the rule around it or else in  *)
(* the sheet; a rule that error interrupts is ignored (cr-doc-handler.h).  *)
(***************************************************************************)
EXTENDS Sequences, Integers

VARIABLES open,     \* the rules being read, outermost first
          sheet,    \* the rules that are complete
          sac       \* the call that is handled

sheetVars == <<open, sheet, sac>>

Rule(kind) == [kind |-> kind, at |-> sac'.at, decls |-> <<>>, rules |-> <<>>]

Init == open = <<>> /\ sheet = <<>> /\ sac = [call |-> "none", at |-> 0]

Called(f) == sac'.call = f
Last  == open[Len(open)]
Outer == SubSeq(open, 1, Len(open) - 1)

\* The rules around it when a rule becomes r.
Becoming(rules, r) == [rules EXCEPT ![Len(rules)] = r]

Start(call, kind) == /\ Called(call)
                     /\ open' = Append(open, Rule(kind))
                     /\ UNCHANGED sheet

End(call, kind) ==
    /\ Called(call)
    /\ open # <<>>
    /\ Last.kind = kind
    /\ IF Outer = <<>>
       THEN open' = <<>> /\ sheet' = Append(sheet, Last)
       ELSE /\ LET outer == Outer[Len(Outer)]
               IN  open' = Becoming(Outer, [outer EXCEPT !.rules = Append(@, Last)])
            /\ UNCHANGED sheet

Property == /\ Called("property")
            /\ open # <<>>
            /\ open' = Becoming(open, [Last EXCEPT !.decls = Append(@, sac'.at)])
            /\ UNCHANGED sheet

Error == /\ Called("error")
         /\ open' = IF open = <<>> THEN <<>> ELSE Outer
         /\ UNCHANGED sheet

Single(call, kind) == /\ Called(call)
                      /\ sheet' = Append(sheet, Rule(kind))
                      /\ UNCHANGED open

Other == /\ sac'.call \in {"none", "start_document", "end_document",
                           "unrecoverable_error"}
         /\ UNCHANGED <<open, sheet>>

Next == \/ Start("start_selector", "selector") \/ End("end_selector", "selector")
        \/ Start("start_media", "media") \/ End("end_media", "media")
        \/ Start("start_page", "page") \/ End("end_page", "page")
        \/ Start("start_font_face", "font_face") \/ End("end_font_face", "font_face")
        \/ Property \/ Error \/ Other
        \/ Single("charset", "charset") \/ Single("import_style", "import")

Spec == Init /\ [][Next]_sheetVars
=============================================================================
