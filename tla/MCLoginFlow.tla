---------------------------- MODULE MCLoginFlow ----------------------------
(***************************************************************************)
(* LoginFlow for TLC.  A redirect_uri and a state that are plain; others   *)
(* with a quote, which a page cuts: a redirect_uri to another one, or to   *)
(* what is none; and a state whose entity is decoded by the first page and *)
(* is a quote to the second.                                               *)
(***************************************************************************)
EXTENDS LoginFlow

MCRedirectURIs == {"uri", "uri with a quote", "user with a quote"}
MCStates == {"state", "state with an entity"}
MCURLs == MCRedirectURIs \cup {"uri cut"}

Reads ==
  [text \in {"uri with a quote", "user with a quote", "state with an entity",
             "state with a quote"} |->
     CASE text = "uri with a quote" -> "uri cut"
       [] text = "user with a quote" -> "http://"
       [] text = "state with an entity" -> "state with a quote"
       [] text = "state with a quote" -> "state cut"]

MCTexts == MCURLs \cup MCStates \cup DOMAIN Reads
             \cup {"http://", "state cut", "given", "undefined"}
MCAsAttribute ==
  [text \in MCTexts |-> IF text \in DOMAIN Reads THEN Reads[text] ELSE text]
=============================================================================
