----------------------------- MODULE MCDsiHttp -----------------------------
EXTENDS DsiHttp

\* A response of each kind that do_request tells apart.
S(status, chunked, length, size, reusable) ==
    [status |-> status, chunked |-> chunked, length |-> length, size |-> size, reusable |-> reusable]
MCShape == {
    S("200", FALSE, 2, 2, TRUE),            \* a cover, with its length
    S("200", TRUE, 1, 2, TRUE),             \* re-framed by a middlebox, the origin's length left in
    S("200", FALSE, NoLength, 2, FALSE),    \* ended by the close
    S("200", FALSE, 0, 0, TRUE),            \* empty
    S("200", FALSE, Malformed, 1, TRUE),
    S("200", FALSE, 1, 1, FALSE),           \* Connection: close, or HTTP/1.0
    S("404", FALSE, 0, 0, TRUE),            \* a miss
    S("other", FALSE, 1, 1, TRUE),          \* an error page
    S("404", TRUE, NoLength, 1, TRUE)}      \* and one in chunks
=============================================================================
