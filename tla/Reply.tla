------------------------------- MODULE Reply -------------------------------
(***************************************************************************)
(* struct reply of whz_common: the stock replies and the buffers a reply   *)
(* is sent as.  A content is a sequence of marks (0 in the stock pages), a *)
(* status is its number.                                                   *)
(***************************************************************************)
EXTENDS Integers, Sequences

\* The status values that have a status line and a stock page, with the
\* length of the page (reply_to_string); any other gets those of 500.
PageLength ==
    [s \in {200, 201, 202, 204, 300, 301, 302, 304, 400, 401, 403, 404, 500,
            501, 502, 503} |->
        CASE s = 200 -> 0 [] s = 201 -> 81 [] s = 202 -> 83 [] s = 204 -> 84
          [] s = 300 -> 99 [] s = 301 -> 101 [] s = 302 -> 101 [] s = 304 -> 91
          [] s = 400 -> 89 [] s = 401 -> 91 [] s = 403 -> 85 [] s = 404 -> 88
          [] s = 500 -> 109 [] s = 501 -> 97 [] s = 502 -> 89 [] s = 503 -> 105]

reply_to_string(status) ==
    [i \in 1..(IF status \in DOMAIN PageLength THEN PageLength[status]
               ELSE PageLength[500]) |-> 0]

\* status_strings::to_buffer: the line "HTTP/1.0 <status> ..." with its CR LF.
to_buffer(status) ==
    <<"status line", IF status \in DOMAIN PageLength THEN status ELSE 500>>

\* std::to_string of a size: its decimal digits.
to_string[n \in Nat] ==
    IF n < 10 THEN <<48 + n>>
    ELSE Append(to_string[n \div 10], 48 + (n % 10))

\* The two headers that both stock_reply and handle_request set, last, from
\* the content that is then in place.
content_headers(content) ==
    << [name |-> "Content-Length", value |-> to_string[Len(content)]],
       [name |-> "Content-Type", value |-> "text/html"] >>

stock_reply(status) ==
    LET content == reply_to_string(status)
    IN  [status |-> status, headers |-> content_headers(content),
         content |-> content]

\* Mutant: no empty line between the headers and the content.
to_buffers_no_empty_line(rep) ==
    LET lines[h \in 0..Len(rep.headers)] ==
            IF h = 0 THEN <<to_buffer(rep.status)>>
            ELSE lines[h - 1] \o
                    << <<"name", rep.headers[h].name>>, <<"separator">>,
                       <<"value", rep.headers[h].value>>, <<"crlf">> >>
    IN  lines[Len(rep.headers)] \o << <<"content", rep.content>> >>

\* The buffers handed to async_write, each tagged with what it holds.
to_buffers(rep) ==
    LET lines[h \in 0..Len(rep.headers)] ==
            IF h = 0 THEN <<to_buffer(rep.status)>>
            ELSE lines[h - 1] \o
                    << <<"name", rep.headers[h].name>>, <<"separator">>,
                       <<"value", rep.headers[h].value>>, <<"crlf">> >>
    IN  lines[Len(rep.headers)] \o << <<"crlf">>, <<"content", rep.content>> >>
=============================================================================
