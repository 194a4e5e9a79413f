---------------------------- MODULE MCConnections ----------------------------
(***************************************************************************)
(* What serves one client: a plain connection, the request handler it      *)
(* calls with a request, and a TLS connection.  part is the one that a     *)
(* behaviour is about; the others rest, the plain connection with a client *)
(* that has sent one byte and the TLS connection with one that sends none. *)
(***************************************************************************)
EXTENDS MCConnection, MCRequestHandler, SslConnection

VARIABLE part

ConnectionsInit ==
    /\ part \in {"plain", "handler", "tls"}
    /\ part = "plain" \/ stream = <<71>>
    /\ Init
    /\ part = "handler" \/ (uri = <<47>> /\ disk = <<>>)
    /\ HandlerInit
    /\ part = "tls" \/ tls_stream = <<>>
    /\ TlsInit

ConnectionsNext ==
    \/ part = "plain" /\ Next /\ UNCHANGED <<part, handler_vars, tls_vars>>
    \/ part = "handler" /\ HandlerNext /\ UNCHANGED <<part, vars, tls_vars>>
    \/ part = "tls" /\ TlsNext /\ UNCHANGED <<part, vars, handler_vars>>

connections_vars == <<part, vars, handler_vars, tls_vars>>

\* The fairness of each part's own specification.
ConnectionsSpec ==
    /\ ConnectionsInit
    /\ [][ConnectionsNext]_connections_vars
    /\ WF_connections_vars(part = "plain" /\ (ReadSome \/ ReadError)
                             /\ UNCHANGED <<part, handler_vars, tls_vars>>)
    /\ WF_connections_vars(part = "plain" /\ (ParseByte \/ Dispatch)
                             /\ UNCHANGED <<part, handler_vars, tls_vars>>)
    /\ WF_connections_vars(part = "handler" /\ HandleRequest
                             /\ UNCHANGED <<part, vars, tls_vars>>)
    /\ WF_connections_vars(part = "tls" /\ TlsHandler
                             /\ UNCHANGED <<part, vars, handler_vars>>)

\* Every request is answered, unless its file grows again and again (Answered
\* of RequestHandler).
RequestAnswered == part = "handler" => Answered
=============================================================================
