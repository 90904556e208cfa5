--------------------------- MODULE MCProxySession ---------------------------
(* ProxySession on small instances; the cfg files give the bounds.         *)
EXTENDS ProxySession

Forms == {<<"CONNECT", "authority", <<>>>>, <<"GET", "absolute", <<>>>>,
          <<"POST", "absolute", <<"/", "HTTP", "/", "abc">>>>,
          <<"POST", "absolute", <<"/", "abc", "CONNECT">>>>,
          <<"GET", "origin", <<"/">>>>, <<"POST", "origin", <<"/", "abc">>>>}

\* Other lines of a header: "http://" with a "/" behind it and without, names
\* that end in Host, and a CONNECT.
Referer == <<"Referer", ":", SP, "http", ":", "/", "/", "else.where", "/">>
Origin == <<"Origin", ":", SP, "http", ":", "/", "/", "else.where">>
Forwarded == <<"X-Forwarded-", "Host", ":", SP, "else.where">>
Bare == <<"X-Forwarded-", "Host", ":">>
Cookie == <<"Cookie", ":", SP, "CONNECT", SP, "abc">>
LastOne == <<"Cookie", ":", "CONNECT">>

Asked(form, host, port, end, blank, before, more, late) ==
  [method |-> form[1], form |-> form[2], path |-> form[3], host |-> host, port |-> port,
   end |-> end, blank |-> blank, before |-> before, more |-> more, late |-> late]
Crlf == <<<<CR, LF>>, <<CR, LF>>>>
Plain == <<"example.com">>

\* Every form with every end, port and blank; with every kind of other line;
\* with a host that ends in HTTP; and with text behind an end that is not seen.
MCRequests ==
  {Asked(f, Plain, port, end, blank, <<>>, <<>>, <<>>) :
     f \in Forms, port \in {"", "8080"}, end \in {Crlf, <<<<LF>>, <<LF>>>>, MixedEnd},
     blank \in {<<>>, <<SP>>}}
  \cup {Asked(f, Plain, "", Crlf, <<SP>>, lines[1], lines[2], <<>>) :
          f \in Forms,
          lines \in {<<<<Forwarded>>, <<>>>>, <<<<Bare>>, <<>>>>, <<<<Referer>>, <<Origin>>>>,
                     <<<<>>, <<Cookie>>>>, <<<<>>, <<LastOne>>>>, <<<<>>, <<Origin>>>>,
                     <<<<>>, <<Forwarded, Referer>>>>}}
  \cup {Asked(f, <<"www", "HTTP">>, port, Crlf, <<SP>>, <<>>, <<>>, <<>>) :
          f \in Forms, port \in {"", "8080"}}
  \cup {Asked(f, Plain, "8080", MixedEnd, <<SP>>, <<>>, <<>>, <<"abc", CR, LF, CR, LF>>) :
          f \in Forms}
=============================================================================
