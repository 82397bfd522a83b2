---------------------------- MODULE ContentProvider ----------------------------
(***************************************************************************)
(* The client of the external provider (KkphimAdapter, in                  *)
(* src/libs/content-provider/src/index.ts): what a call of it comes to,    *)
(* from the replies to its requests and the document of the last one.      *)
(* Nothing here is state: the cache of metadata is passed over by all who  *)
(* call fetchMetadata (fresh: true).                                       *)
(*                                                                         *)
(* A document names the servers of a movie in up to three places: in the   *)
(* movie (movie), beside it (data), or at its root (root).  A server has a *)
(* name and episodes; a name n stands for what normalizeKey makes of it,   *)
(* of "Server 1" the name 1, and 0 for nothing.  An episode may have a     *)
(* filename, a slug and a name, "" when it has none and "url" when it is   *)
(* an address or too long; the host of its playlist may be one that the    *)
(* streaming service does not allow ("unsafe").                            *)
(***************************************************************************)
EXTENDS Naturals, Sequences

CONSTANT Documents

Episode == [filename: STRING, slug: STRING, name: STRING,
            hls: {"", "hls", "unsafe"}, embed: BOOLEAN]

Server == [name: Nat, episodes: Seq(Episode)]

ASSUME DocumentsAssumption ==
    \A doc \in Documents :
        \E at \in SUBSET {"movie", "data", "root"} : doc \in [at -> Seq(Server)]

\* "busy" is no answer in time, or a status 429 or 5xx; "unusable" another status but 404,
\* or a body that is too large or not JSON.
Reply == {"busy", "not_found", "unusable", "document"}

Attempts == 3

Repeated(reply) == reply = "busy"

\* get: the first reply that no further attempt can better, or the last one.
Get(replies) ==
    LET settled == {n \in 1..Attempts : ~Repeated(replies[n])}
    IN  IF settled = {} THEN replies[Attempts]
        ELSE replies[CHOOSE n \in settled : \A k \in settled : n <= k]

Members(seq) == {seq[n] : n \in DOMAIN seq}

Twice(keys) == \E i, j \in DOMAIN keys : i # j /\ keys[i] = keys[j]

\* The key that a server has in the metadata: by its position when its name leaves none.
ServerKeys(servers) ==
    [n \in DOMAIN servers |-> IF servers[n].name = 0 THEN n ELSE servers[n].name]

Selectable(text) == text \notin {"", "url"}

\* The key that an episode has in the metadata: the first that can be one.
SelectorKey(episode) ==
    IF Selectable(episode.filename) THEN episode.filename
    ELSE IF Selectable(episode.slug) THEN episode.slug ELSE episode.name

SelectorKeys(episodes) == [n \in DOMAIN episodes |-> SelectorKey(episodes[n])]

\* parseServers refuses a key that it meets twice, and an episode without one: it could not
\* tell which is selected.
ParseServers(servers) ==
    IF \/ Twice(ServerKeys(servers))
       \/ \E server \in Members(servers) :
             \/ Twice(SelectorKeys(server.episodes))
             \/ \E episode \in Members(server.episodes) : ~Selectable(SelectorKey(episode))
    THEN "conflict" ELSE "servers"

\* The servers of the first place that names any.
ServersAt(doc, first, second, third) ==
    IF first \in DOMAIN doc THEN doc[first]
    ELSE IF second \in DOMAIN doc THEN doc[second]
    ELSE IF third \in DOMAIN doc THEN doc[third] ELSE <<>>

Parsed(doc) == ServersAt(doc, "movie", "data", "root")

\* A movie without an episode is no movie.
ParseProviderDetail(doc) ==
    IF ParseServers(Parsed(doc)) = "conflict" THEN "conflict"
    ELSE IF \A server \in Members(Parsed(doc)) : server.episodes = <<>> THEN "unusable"
    ELSE "detail"

FetchMetadata(replies, doc) ==
    IF Get(replies) = "document" THEN ParseProviderDetail(doc) ELSE Get(replies)

\* find: the first member with a key, if there is one.
Find(seq, keys, key) ==
    LET hits == {n \in DOMAIN seq : keys[n] = key}
    IN  {seq[n] : n \in {k \in hits : \A l \in hits : k <= l}}

\* The episode of the metadata that a source item names, by server and selector.
Selected(doc, key, selector) ==
    UNION {Find(server.episodes, SelectorKeys(server.episodes), selector) :
             server \in Find(Parsed(doc), ServerKeys(Parsed(doc)), key)}

\* resolvePlayback takes the links from the document itself, where it does not look beside the
\* movie and goes by the names that are given: a server by no other, an episode by the first.
RawServers(doc) == ServersAt(doc, "movie", "root", "root")

RawNames(servers) == [n \in DOMAIN servers |-> servers[n].name]

RawKey(episode) ==
    IF episode.filename # "" THEN episode.filename
    ELSE IF episode.slug # "" THEN episode.slug ELSE episode.name

RawKeys(episodes) == [n \in DOMAIN episodes |-> RawKey(episodes[n])]

RawSelected(doc, key, selector) ==
    UNION {Find(server.episodes, RawKeys(server.episodes), selector) :
             server \in Find(RawServers(doc), RawNames(RawServers(doc)), key)}

\* A link that both lookups find, a playlist before an embedded player.
Link(selected, raw) ==
    IF selected.hls # "" /\ raw.hls # "" THEN raw.hls
    ELSE IF selected.embed /\ raw.embed THEN "embed" ELSE "none"

\* "none" is the mode metadata_only.
ResolvePlayback(replies, doc, key, selector) ==
    LET selected == Selected(doc, key, selector)
        raw == RawSelected(doc, key, selector)
    IN  IF FetchMetadata(replies, doc) # "detail" THEN FetchMetadata(replies, doc)
        ELSE IF selected = {} THEN "conflict"
        ELSE IF DOMAIN doc = {"data"} THEN "unusable"
        ELSE IF raw = {} THEN "none"
        ELSE CHOOSE link \in {Link(s, r) : s \in selected, r \in raw} : TRUE

\* All that the two calls can come to.
Fetched ==
    {FetchMetadata(replies, doc) : replies \in [1..Attempts -> Reply], doc \in Documents}

Resolved(key, selector) ==
    {ResolvePlayback(replies, doc, key, selector) :
        replies \in [1..Attempts -> Reply], doc \in Documents}
=============================================================================
