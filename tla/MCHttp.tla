-------------------------------- MODULE MCHttp --------------------------------
(* Small instances of HttpMethod. *)
EXTENDS HttpMethod

Page(code, framing, size, close, to) ==
    [code |-> code, framing |-> framing, size |-> size, close |-> close, to |-> to]

\* A file; a redirection with a text of its own to a chunked file on another
\* server, which hangs up after it; an error with a text; a file that has not
\* changed; headers that make no sense; two servers that redirect to each other.
TwoHosts == [a |-> "h1", b |-> "h1", c |-> "h2", d |-> "h1", e |-> "h1", f |-> "h1",
             g |-> "h1", h |-> "h2"]
MixedSite ==
    [a |-> Page("ok", "stream", 3, FALSE, NoUri), b |-> Page("redirect", "stream", 1, FALSE, "c"),
     c |-> Page("ok", "chunked", 2, TRUE, NoUri), d |-> Page("error", "stream", 1, FALSE, NoUri),
     e |-> Page("notmod", "none", 0, FALSE, NoUri), f |-> Page("bad", "none", 0, FALSE, NoUri),
     g |-> Page("redirect", "none", 0, FALSE, "h"), h |-> Page("redirect", "none", 0, FALSE, "g")]
MixedPlans ==
    {[one |-> "a", two |-> "b", three |-> "e"], [one |-> "a", two |-> "d", three |-> "e"],
     [one |-> "a", two |-> "f"], [one |-> "a", two |-> "g"]}

\* One server: a redirection to another of its own files; a chunked file.
OneHost == [u \in Uri |-> "h1"]
OwnRedirect ==
    [a |-> Page("redirect", "none", 0, FALSE, "b"), b |-> Page("ok", "stream", 1, FALSE, NoUri)]
ChunkedFile ==
    [a |-> Page("ok", "chunked", 3, FALSE, NoUri), b |-> Page("ok", "stream", 1, FALSE, NoUri)]
OneOrBoth == {[one |-> "a"], [one |-> "a", two |-> "b"]}
=============================================================================
