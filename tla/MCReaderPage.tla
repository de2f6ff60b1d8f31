---------------------------- MODULE MCReaderPage ----------------------------
(***************************************************************************)
(* A window and another client of a page that is an article at one time    *)
(* and not at another.                                                     *)
(***************************************************************************)
EXTENDS ReaderPage

CONSTANTS window, client, http, mobile, timeout

MCCallers == {window, client}
MCWindows == {window}
MCUrls == {http, mobile}
MCFetchErrors == {timeout}

MCArticle == [readerable |-> TRUE, parsed |-> TRUE, regions |-> <<"long">>]
MCRegion == [readerable |-> TRUE, parsed |-> FALSE, regions |-> <<"short", "long">>]
MCNone == [readerable |-> FALSE, parsed |-> TRUE, regions |-> <<"short">>]
MCDocuments == {MCArticle, MCRegion, MCNone}
=============================================================================
