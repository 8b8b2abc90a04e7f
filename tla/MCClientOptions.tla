-------------------------- MODULE MCClientOptions --------------------------
(***************************************************************************)
(* Builds and command lines for the run of ClientOptions.                   *)
(***************************************************************************)
EXTENDS ClientOptions

Opt(l)    == [letter |-> l, num |-> 0, text |-> "other"]
Num(n)    == [letter |-> "", num |-> n, text |-> "other"]
Text(t)   == [letter |-> "", num |-> 0, text |-> t]
Negative  == [letter |-> "1", num |-> -1, text |-> "other"]   \* the word "-1"

FullBuild ==
    {"TLS13", "CURVE25519", "ECC", "DH", "EARLY_DATA", "SECURE_RENEGOTIATION",
     "POST_HANDSHAKE_AUTH", "NO_EXTERNAL_TEST", "CRL", "SCTP", "TRUST_PEER_CERT",
     "ATOMIC_USER", "PK_CALLBACKS", "SNI", "MAX_FRAGMENT", "TRUNCATED_HMAC",
     "EXTENDED_MASTER", "STATUS_REQUEST", "OCSP", "ANON", "ALPN", "WNR",
     "MULTICAST", "ALLOW_SSLV3", "DTLS"}

\* everything, the same without curves or finite fields, TLS 1.2 only, and
\* a build with none of the macros
MCBuilds ==
    {FullBuild, FullBuild \ {"ECC", "DTLS"}, FullBuild \ {"DH", "CURVE25519"},
     FullBuild \ {"TLS13"}, {"NO_OLD_TLS"}}

\* every letter, an unknown one, and arguments in, at and beyond each bound
Words ==
    {Opt(l) : l \in Letters \cup {"9"}}
        \cup {Num(n) : n \in {0, 1, 4, 5, 6, 255, 256, 257, 16000, 16001, 65535,
                              65536, 65537, 1000000, 1000001}}
        \cup {Text(t) : t \in Texts} \cup {Negative}

\* options that meet in one variable or in the version, and what swallows them
Meeting ==
    {Opt("v"), Opt("u"), Opt("G"), Opt("t"), Opt("y"), Opt("Y"), Opt("J"),
     Opt("W"), Opt("b"), Num(3), Num(4)}

Version4 == <<Opt("v"), Num(4)>>

MCCommandLines ==
    {<<>>} \cup [1..1 -> Words] \cup [1..2 -> Words] \cup [1..3 -> Meeting]
        \cup {Version4 \o s : s \in [1..2 -> Meeting]}
        \cup {s \o Version4 : s \in [1..2 -> Meeting]}
=============================================================================
