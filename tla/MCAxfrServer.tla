---------------------------- MODULE MCAxfrServer ----------------------------
(***************************************************************************)
(* A client with a known address and one without. The first sends transfers *)
(* only, or requests between whose answers the source is and is not asked,  *)
(* or one that does not parse between two others.                           *)
(***************************************************************************)
EXTENDS AxfrServer, TLC

CONSTANTS known, unknown

MCConns == {known, unknown}
MCKnown == {known}

MCScripts ==
  known :> {<<"transfer", "transfer", "transfer">>,
            <<"serial", "noQuestion", "transfer">>,
            <<"transfer", "garbled", "other">>}
  @@ unknown :> {<<"noQuestion", "transfer">>}
==============================================================================
