---------------------------- MODULE SacProtocol ----------------------------
(***************************************************************************)
(* The order in which a document handler may be called (cr-doc-handler.h): *)
(* every rule that is started is ended once, or dropped by error, before   *)
(* another begins beside it; rulesets nest in @media and nothing else does;*)
(* properties belong to the innermost rule.  A call names a rule by the    *)
(* place it was read from.                                                 *)
(***************************************************************************)
EXTENDS Naturals, Sequences

VARIABLES phase,    \* how far the document has got
          open,     \* the rules that are started, outermost first
          sac       \* the last call

protocolVars == <<phase, open, sac>>

Init == /\ phase = "before"
        /\ open = <<>>
        /\ sac = [call |-> "none", at |-> 0]

Called(f) == sac'.call = f
Innermost == open[Len(open)]

\* A document is made of an @charset, imports and other rules, in this order;
\* each part may be missing.
Inside == {"charset", "imports", "rules"}
Later(p) == CASE p = "charset" -> Inside
              [] p = "imports" -> {"imports", "rules"}
              [] OTHER         -> {p}

StartDocument == /\ phase = "before" /\ Called("start_document")
                 /\ phase' = "charset"
                 /\ UNCHANGED open

\* end_document, or unrecoverable_error in its place.
EndDocument == /\ phase \in Inside /\ open = <<>>
               /\ Called("end_document") \/ Called("unrecoverable_error")
               /\ phase' = "after"
               /\ UNCHANGED open

Start(call, kind) ==
    /\ phase = "rules" /\ Called(call)
    /\ \/ open = <<>>
       \/ kind = "selector" /\ Len(open) = 1 /\ open[1].kind = "media"
    /\ open' = Append(open, [kind |-> kind, at |-> sac'.at])
    /\ UNCHANGED phase

End(call, kind) ==
    /\ Called(call)
    /\ open # <<>> /\ Innermost = [kind |-> kind, at |-> sac'.at]
    /\ open' = SubSeq(open, 1, Len(open) - 1)
    /\ UNCHANGED phase

Property == /\ Called("property")
            /\ open # <<>> /\ Innermost.kind # "media" /\ Innermost.at < sac'.at
            /\ UNCHANGED <<phase, open>>

CharsetRule == /\ phase = "charset" /\ Called("charset")
               /\ phase' = "imports"
               /\ UNCHANGED open

ImportRule == /\ phase = "imports" /\ Called("import_style")
              /\ UNCHANGED <<phase, open>>

\* The rule being parsed, if any, is to be ignored.
Error == /\ phase \in Inside /\ Called("error")
         /\ open' = IF open = <<>> THEN <<>> ELSE SubSeq(open, 1, Len(open) - 1)
         /\ UNCHANGED phase

Quiet == Called("none") /\ phase' \in Later(phase) /\ UNCHANGED open

Next == \/ StartDocument \/ EndDocument \/ CharsetRule \/ ImportRule
        \/ Property \/ Error \/ Quiet
        \/ Start("start_selector", "selector") \/ End("end_selector", "selector")
        \/ Start("start_media", "media") \/ End("end_media", "media")
        \/ Start("start_page", "page") \/ End("end_page", "page")
        \/ Start("start_font_face", "font_face")
        \/ End("end_font_face", "font_face")

Spec == Init /\ [][Next]_protocolVars
=============================================================================
