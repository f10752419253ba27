--------------------------- MODULE MCSpamPipeline ---------------------------
(***************************************************************************)
(* SpamPipeline with copies of one text in two chats, the second one in    *)
(* disguise.  Its two phrases reach the threshold of the first chat alone, *)
(* as the second chat gives one of them no weight; the second one asks     *)
(* CAS.  The third message has one of the phrases.                         *)
(***************************************************************************)
EXTENDS SpamPipeline, TLC

CONSTANTS c1, c2, m1, m2, m3, alice, bob

MCchat_of == (m1 :> c1) @@ (m2 :> c2) @@ (m3 :> c2)
MCwriter == (m1 :> alice) @@ (m2 :> alice) @@ (m3 :> bob)
MCbody == (m1 :> <<"q", "i", "blank", "i_acute">>)
       @@ (m2 :> <<"tab", "Q", "zero_width", "I_dot", "acute", "tab",
                   "I", "macron_below", "acute">>)
       @@ (m3 :> <<"q", "blank", "i_acute">>)
MCPHRASES == {<<"q", "i">>, <<"i_acute">>}
MCspam_weights == (c1 :> <<>>) @@ (c2 :> (<<"q", "i">> :> 0))
MCspam_threshold == (c1 :> 2) @@ (c2 :> 2)
=============================================================================
