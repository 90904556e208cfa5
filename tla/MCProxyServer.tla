--------------------------- MODULE MCProxyServer ----------------------------
(* ProxyServer with a few clients; the cfg file names them.                *)
EXTENDS ProxyServer
=============================================================================
