----------------------------- MODULE MCClipboard -----------------------------
(* An instance of Clipboard for TLC. *)
EXTENDS Clipboard, TLC

Of(unicode, text, image) == [F_UNICODE |-> unicode, F_TEXT |-> text, F_BITMAP |-> image]
\* Two Unicode texts that differ in the second half only, a text without and
\* with its Unicode form, an image, text with an image, and nothing.
MCContents == {Of(<<1, 1, 1>>, NULL, NULL), Of(<<1, 1, 2>>, NULL, NULL),
               Of(NULL, <<1>>, NULL), Of(<<1>>, <<1>>, NULL),
               Of(NULL, NULL, <<3, 7>>), Of(<<2, 1, 1>>, NULL, <<0, 8, 8>>),
               Of(NULL, NULL, NULL)}
MCBeyond == {<<5>>, <<6>>}
=============================================================================
