---------------------------- MODULE MCPostRetries ----------------------------
(* The answers of a failing server.                                         *)
EXTENDS PostRetries

\* Outages, throttling with every kind of Retry-After, refusals.
AnyFailure ==
    { Raised("timeout"), Raised("connection_error"), Raised("request_error"),
      Http(403, "no object", <<>>), Http(408, "no json", <<>>), Http(503, "no json", <<>>),
      Http(429, "no object", <<>>), Http(429, "no object", <<"seconds", 15>>),
      Http(429, "no object", <<"seconds", -1>>), Http(429, "no object", <<"date", 20>>),
      Http(429, "no object", <<"nan">>), Http(429, "no object", <<"other">>) }

\* A created post whose answer cannot be read.
Unreadable == { Http(201, "no json", <<>>), Http(200, "no id", <<>>) }

\* A Retry-After of inf.
Endless == { Http(429, "no object", <<"seconds", 1000000>>) }
=============================================================================
