------------------------------- MODULE MCHttp -------------------------------
(* Requests with and without each header, refused ones, a body, and ranges of *)
(* each form, in the file and beyond its end; the values of the headers are   *)
(* looked up in tables.                                                       *)
EXTENDS Http, TLC

Get(path, query, version, headers) ==
    [method |-> "GET", path |-> path, query |-> query, version |-> version,
     headers |-> headers, body |-> 0]

MCRequests ==
    {Get("/f", "", "1.1", <<>>),
     Get("/f", "?q", "1.1", "Range" :> "0-0"),
     Get("/f", "", "1.0", ("Connection" :> "Keep-Alive") @@ ("Range" :> "1-")),
     Get("/f", "", "1.1", ("Connection" :> "close") @@ ("Range" :> "-1")),
     Get("/f", "", "1.1", "Range" :> "1-9"),
     Get("/f", "", "1.1", "Range" :> "2-0"),
     Get("/d", "", "1.0", <<>>),
     Get("/favicon.ico", "", "1.1", <<>>),
     Get("/none", "", "2.0", <<>>),
     [Get("/pipe", "", "1.1", "Content-Length" :> "2") EXCEPT !.method = "POST", !.body = 2]}

MCFiles == ("/f" :> [kind |-> "regular", size |-> 2]) @@ ("/pipe" :> [kind |-> "other", size |-> 0])
           @@ ("/d" :> [kind |-> "directory", size |-> 0])

MCRanges == ("0-0" :> [beg |-> 0, end |-> 0]) @@ ("1-" :> [beg |-> 1, end |-> -1])
            @@ ("-1" :> [beg |-> -1, end |-> 1]) @@ ("1-9" :> [beg |-> 1, end |-> 9])
            @@ ("2-0" :> [beg |-> 2, end |-> 0])

MCLengths == "2" :> 2
=============================================================================
