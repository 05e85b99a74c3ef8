------------------------------ MODULE ConfigMC ------------------------------
(* Config for TLC: files whose entries differ in the one feature that a check  *)
(* looks at, and files whose settings do.                                      *)
EXTENDS Config, TLC

CONSTANTS a, b

Lengths == (a :> 2) @@ (b :> 3) @@ (NoHost :> 0)

Plain(host) == [padded |-> FALSE, scheme |-> "https", upper |-> FALSE,
                separator |-> TRUE, host |-> host, slashes |-> 0, odd |-> FALSE]

With(url, rate, burst, weight) ==
    [url |-> url, rate |-> rate, burst |-> burst, weight |-> weight]

\* Spellings of one url, one of them too long, and urls that are no url.
Urls ==
    { Plain(a),
      [Plain(a) EXCEPT !.padded = TRUE, !.upper = TRUE],
      [Plain(a) EXCEPT !.slashes = 2],
      [Plain(a) EXCEPT !.slashes = 3],
      [Plain(a) EXCEPT !.scheme = "http"],
      [Plain(a) EXCEPT !.odd = TRUE],
      [Plain(a) EXCEPT !.scheme = "other", !.separator = FALSE],
      Plain(b),
      Plain(NoHost) }

Entries ==
    {With(u, 1, 1, None) : u \in Urls} \union
    {With(Plain(a), 2, 2, 0), With(Plain(a), 0, 1, 5), With(Plain(a), 3, 1, None),
     With(Plain(a), 1, 0, None), With(Plain(a), 1, 3, None)}

Lists == UNION {[1..n -> Entries] : n \in 0..3}

TheDefaults == <<With(Plain(a), 1, 1, 5), With(Plain(b), 1, 1, 5)>>

SomeFiles ==
    {[Empty EXCEPT !.endpoints = list] : list \in Lists} \union
    [interval : {None, 0}, smoothing : {None, NaN, -1, 11}, batch : {None, 0, 2},
     concurrency : {None, 0, 2}, endpoints : {None, <<>>}]
=============================================================================
