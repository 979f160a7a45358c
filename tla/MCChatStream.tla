---------------------------- MODULE MCChatStream ----------------------------
(* Small instances of ChatStream. *)
EXTENDS ChatStream

OneText == <<"text">>
TwoTexts == <<"text", "text">>
TextThenNone == <<"text", "none">>
TextThenApproval == <<"text", "approvals">>
=============================================================================
