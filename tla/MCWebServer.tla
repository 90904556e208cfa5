----------------------------- MODULE MCWebServer -----------------------------
(* WebServer on small instances: requests for the resources of handler.h,  *)
(* GET /string, for which there is no function, one without a version and  *)
(* one whose Content-Length is no number.                                  *)
EXTENDS WebServer

Req(method, path, version, body) ==
  [method |-> method, path |-> path, version |-> version,
   announced |-> body > 0, legible |-> TRUE, body |-> body]

Info == Req("GET", "info", "1.1", 0)
Index == Req("GET", "index", "1.0", 0)
PostString == Req("POST", "string", "1.1", 2)
GetString == Req("GET", "string", "1.1", 0)
NoVersion == Req("GET", "info", "none", 0)
BadLength == [Req("POST", "string", "1.1", 0) EXCEPT !.announced = TRUE, !.legible = FALSE]

MCRequests == {Info, Index, PostString, GetString, NoVersion, BadLength}
=============================================================================
