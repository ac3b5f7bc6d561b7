----------------------------- MODULE GeeRouter -----------------------------
(***************************************************************************)
(* The Gee web framework: route registration through router groups        *)
(* (gee.go, src/unnamed/part_002) and request routing (router.go,          *)
(* src/unnamed/part_000).  Registration runs on one goroutine before       *)
(* serving; ServeHTTP only reads the engine, so a request is a pure        *)
(* function of the registered state and is checked for every path.        *)
(*                                                                         *)
(* Paths and patterns are strings, modelled as sequences of characters     *)
(* over a small alphabet, because the code's behaviour is decided by       *)
(* strings.Split, strings.HasPrefix and string concatenation.              *)
(*                                                                         *)
(* The trie (Node.insert/search, main.go) is the module GeeTrie.           *)
(***************************************************************************)
EXTENDS Naturals, Sequences, SequencesExt, FiniteSets, GeeTrie

CONSTANTS Methods,      \* HTTP methods routes are added for
          GroupPrefixes, \* strings passed to Group
          Comps,        \* strings passed to GET/POST
          Middlewares,  \* handlers passed to Use (model values)
          MaxGroups,    \* bound on the number of RouterGroups
          MaxUse,       \* bound on the middlewares of one group
          StaticPaths,  \* relativePaths passed to Static
          MaxRoutes,    \* bound on the number of addRoute calls
          MaxPathLen    \* request paths checked: every string up to this length

Char == {"/", "a", "b", ":", "*"}

\* Every request path checked (':' plays no part in a request path).
Paths == BoundedSeq(Char \ {":"}, MaxPathLen)

(***************************************************************************)
(* strings.Split(s, "/") and strings.Join(parts, "/").                     *)
(***************************************************************************)
RECURSIVE Split(_)
Split(s) ==
    LET i == SelectInSeq(s, LAMBDA c : c = "/")
    IN IF i = 0 THEN <<s>>
       ELSE <<SubSeq(s, 1, i - 1)>> \o Split(SubSeq(s, i + 1, Len(s)))

RECURSIVE Join(_)
Join(parts) ==
    IF parts = <<>> THEN <<>>
    ELSE IF Len(parts) = 1 THEN Head(parts)
    ELSE Head(parts) \o <<"/">> \o Join(Tail(parts))

\* The non-empty segments of a path.
Segments(path) == SelectSeq(Split(path), LAMBDA it : it # <<>>)

(***************************************************************************)
(* path.Clean and path.Join (package path), used by Static.  The alphabet  *)
(* has no '.', so Clean's "." and ".." rules never apply: a rooted path     *)
(* keeps one leading '/', runs of '/' collapse and a trailing '/' is       *)
(* dropped; an empty result is "/" when rooted and "." otherwise.  Join    *)
(* skips leading empty elements and cleans the rest joined by '/'.         *)
(***************************************************************************)
PathClean(s) ==
    LET rooted == s # <<>> /\ s[1] = "/"
        body   == Join(Segments(s))
    IN IF rooted THEN <<"/">> \o body
       ELSE IF body = <<>> THEN <<".">> ELSE body

PathJoin(a, b) ==
    IF a = <<>> THEN IF b = <<>> THEN <<>> ELSE PathClean(b)
    ELSE PathClean(a \o <<"/">> \o b)

(***************************************************************************)
(* parsePattern: the non-empty items of the split, up to and including the *)
(* first one that starts with '*'.                                         *)
(***************************************************************************)
RECURSIVE ParseItems(_)
ParseItems(vs) ==
    IF vs = <<>> THEN <<>>
    ELSE IF Head(vs) = <<>> THEN ParseItems(Tail(vs))
    ELSE IF Head(vs)[1] = "*" THEN <<Head(vs)>>
    ELSE <<Head(vs)>> \o ParseItems(Tail(vs))

ParsePattern(pattern) == ParseItems(Split(pattern))

VARIABLES groups,    \* Engine.groups: Seq of [prefix, middlewares, parent]
          roots,     \* router.roots: method -> its trie (GeeTrie)
          handlers,  \* router.handlers: key <<method, pattern>> -> the
                     \* handler: the group whose GET/POST/Static registered
                     \* it and, for createStaticHandler's, its StripPrefix
                     \* absolutePath
          nroutes    \* number of addRoute calls so far

vars == <<groups, roots, handlers, nroutes>>

\* New: the engine is the RouterGroup with the empty prefix, groups[1];
\* newRouter starts with no roots and no handlers.  A method without a
\* root behaves as an empty trie: getRoute returns nil for both.
Init ==
    /\ groups   = <<[prefix |-> <<>>, middlewares |-> <<>>, parent |-> 0]>>
    /\ roots    = [m \in Methods |-> EmptyTrie]
    /\ handlers = <<>>
    /\ nroutes  = 0

\* Group: the new group's prefix is the parent's prefix concatenated with
\* the argument; it is appended to engine.groups.
Group(g, prefix) ==
    /\ Len(groups) < MaxGroups
    /\ groups' = Append(groups, [prefix      |-> groups[g].prefix \o prefix,
                                 middlewares |-> <<>>,
                                 parent      |-> g])
    /\ UNCHANGED <<roots, handlers, nroutes>>

\* Use: the middleware is appended to the group's list.
Use(g, mw) ==
    /\ Len(groups[g].middlewares) < MaxUse
    /\ groups' = [groups EXCEPT ![g].middlewares = Append(@, mw)]
    /\ UNCHANGED <<roots, handlers, nroutes>>

\* The handler GET/POST registers for a group's HandleFunc.
RouteHandler(g) == [group |-> g, static |-> FALSE, root |-> <<>>]

\* Mutant of router.addRoute: the trie node records the parsed parts
\* instead of the pattern string.
RouterAddRouteInsertsParts(method, pattern, h) ==
    /\ roots'    = [roots EXCEPT ![method] =
                        Insert(@, <<>>, ParsePattern(pattern), ParsePattern(pattern), 0)]
    /\ handlers' = (<<method, pattern>> :> h) @@ handlers

\* router.addRoute: insert the pattern in the method's trie (creating the
\* root on first use) and set handlers[method-pattern], replacing an
\* earlier handler of that key.
RouterAddRoute(method, pattern, h) ==
    /\ roots'    = [roots EXCEPT ![method] =
                        Insert(@, <<>>, pattern, ParsePattern(pattern), 0)]
    /\ handlers' = (<<method, pattern>> :> h) @@ handlers

\* RouterGroup.addRoute, called by GET and POST: pattern = prefix + comp.
AddRoute(g, method, comp) ==
    /\ nroutes < MaxRoutes
    /\ RouterAddRoute(method, groups[g].prefix \o comp, RouteHandler(g))
    /\ nroutes' = nroutes + 1
    /\ UNCHANGED groups

\* "/*filepath", the wildcard part Static appends; the parameter name
\* filepath is the one-character name "b" of the alphabet.
FilepathName == <<"b">>
FilepathPart == <<"/", "*">> \o FilepathName

\* Mutant of createStaticHandler: absolutePath is the relativePath alone,
\* without the group's prefix.
StaticRootNoPrefix(g, relativePath) == PathJoin(<<>>, relativePath)

\* createStaticHandler: absolutePath = path.Join(g.prefix, relativePath),
\* the prefix its http.StripPrefix removes.
StaticRoot(g, relativePath) == PathJoin(groups[g].prefix, relativePath)

\* Static: GET(path.Join(relativePath, "/*filepath")), which addRoute
\* prefixes with the group's prefix, with createStaticHandler's handler.
Static(g, relativePath) ==
    /\ nroutes < MaxRoutes
    /\ RouterAddRoute("GET", groups[g].prefix \o PathJoin(relativePath, FilepathPart),
                      [group |-> g, static |-> TRUE,
                       root  |-> StaticRoot(g, relativePath)])
    /\ nroutes' = nroutes + 1
    /\ UNCHANGED groups

(***************************************************************************)
(* getRoute.  searchParts is parsePattern of the request path; search in   *)
(* the method's trie returns a node or nil.  The loop over the parts of    *)
(* the node's pattern binds                                                *)
(* ':name' to the segment at the same index and '*name' (len > 1) to the   *)
(* remaining segments joined by "/", then stops; a later binding of a name *)
(* replaces an earlier one.                                                *)
(***************************************************************************)
Name(part) == SubSeq(part, 2, Len(part))

RECURSIVE BindParams(_, _, _, _)
BindParams(parts, searchParts, index, params) ==
    IF index > Len(parts) THEN params
    ELSE LET part == parts[index] IN
         IF part[1] = ":"
         THEN BindParams(parts, searchParts, index + 1,
                         (Name(part) :> searchParts[index]) @@ params)
         ELSE IF part[1] = "*" /\ Len(part) > 1
         THEN (Name(part) :> Join(SubSeq(searchParts, index, Len(searchParts))))
                @@ params
         ELSE BindParams(parts, searchParts, index + 1, params)

\* The pattern of the node search returns for the request ({} for nil).
SearchResults(method, path) ==
    LET t == roots[method]
    IN {t[n].pattern : n \in Search(t, <<>>, ParsePattern(path), 0)}

\* The loop indexes searchParts by the index of the pattern's parts, which
\* panics when the pattern has more parts than the path.
IndexInRange(pat, path) == Len(ParsePattern(pat)) <= Len(ParsePattern(path))

\* The (n, params) result of getRoute when n is not nil and the loop does
\* not panic.
GetRoute(method, path) ==
    {[pattern |-> pat,
      params  |-> BindParams(ParsePattern(pat), ParsePattern(path), 1, <<>>)] :
        pat \in {q \in SearchResults(method, path) : IndexInRange(q, path)}}

\* ServeHTTP: the groups whose prefix is a string prefix of the path, in
\* engine.groups order, contribute their middlewares.
SelectedGroups(path) == {i \in 1 .. Len(groups) : IsPrefix(groups[i].prefix, path)}

ServeMiddlewares(path) ==
    LET sel == SelectSeq(groups, LAMBDA gr : IsPrefix(gr.prefix, path))
    IN FlattenSeq([i \in 1 .. Len(sel) |-> sel[i].middlewares])

\* handle: the route's handler is r.handlers[method-n.pattern]; it is nil
\* (and c.Next() panics calling it) when that key was never registered.
HandlerKey(method, n) == <<method, n.pattern>>

Next ==
    \/ \E g \in 1 .. Len(groups), p \in GroupPrefixes : Group(g, p)
    \/ \E g \in 1 .. Len(groups), mw \in Middlewares : Use(g, mw)
    \/ \E g \in 1 .. Len(groups), m \in Methods, c \in Comps : AddRoute(g, m, c)
    \/ \E g \in 1 .. Len(groups), rp \in StaticPaths : Static(g, rp)

Spec == Init /\ [][Next]_vars

-----------------------------------------------------------------------------
(* Properties. *)

TypeOK ==
    /\ groups \in Seq([prefix : Seq(Char), middlewares : Seq(Middlewares),
                       parent : Nat])
    /\ \A i \in 1 .. Len(groups) : groups[i].parent < i
    /\ \A m \in Methods :
          /\ <<>> \in DOMAIN roots[m]
          /\ \A n \in DOMAIN roots[m] :
                /\ roots[m][n].pattern \in Seq(Char)
                /\ roots[m][n].children \in Seq(Seq(Char))
    /\ DOMAIN handlers \subseteq Methods \X Seq(Char)
    /\ \A k \in DOMAIN handlers :
          /\ handlers[k] \in [group : 1 .. Len(groups), static : BOOLEAN,
                              root : Seq(Char)]
    /\ nroutes \in 0 .. MaxRoutes

\* Whatever routes were registered, the node search returns for a request
\* never has more parts than the request, so getRoute's loop never indexes
\* searchParts out of range (insert stores a pattern at the depth of its
\* parts and search stops at that depth or at a '*' node).
GetRouteIndexInRange ==
    \A m \in Methods, p \in Paths :
        \A pat \in SearchResults(m, p) : IndexInRange(pat, p)

\* The segment that stands for a parameter or wildcard in a request.
SampleSegment == <<"b">>

\* The request path of a registered pattern with every ':x' or '*x' part
\* replaced by the segment sample.
SamplePath(pattern, sample) ==
    LET parts == ParsePattern(pattern)
    IN FlattenSeq([i \in 1 .. Len(parts) |->
                      <<"/">> \o (IF IsWild(parts[i]) THEN sample ELSE parts[i])])

\* Every route that was registered stays reachable: a request for its own
\* path (wildcards filled in) is routed to it, whatever other routes were
\* inserted in the trie before or after it.
RoutesReachable ==
    \A k \in DOMAIN handlers :
        SearchResults(k[1], SamplePath(k[2], SampleSegment)) = {k[2]}

\* ServeHTTP's comment: it determines which middleware should work for the
\* request.  For a request the router serves, a group with middlewares is
\* selected exactly when its prefix, segment by segment, is a prefix of
\* the request path as getRoute reads it: the "/a" group's middlewares run
\* for "//a/b" (routed under /a) and do not run for "/ab".
MiddlewaresScoped ==
    \A m \in Methods, p \in Paths :
        GetRoute(m, p) # {} =>
            \A i \in 1 .. Len(groups) :
                groups[i].middlewares # <<>> =>
                    (i \in SelectedGroups(p)
                        <=> IsPrefix(ParsePattern(groups[i].prefix), Segments(p)))

\* http.StripPrefix(prefix) hands the request on when the path starts with
\* the (non-empty) prefix, with the prefix trimmed; http.FileServer then
\* serves path.Clean of that path made rooted.  http.Dir opens
\* path.Clean("/" + name).
StripsPrefix(prefix, p) == prefix # <<>> /\ IsPrefix(prefix, p)
ServedName(upath) ==
    PathClean(IF upath # <<>> /\ upath[1] = "/" THEN upath ELSE <<"/">> \o upath)
DirName(name) == PathClean(<<"/">> \o name)

\* A request path as a client sends it: rooted (net/http requires it of
\* an origin-form request), with no segment that starts with '*':
\* getRoute's parsePattern of the request path stops at such a segment,
\* so filepath is cut short there (/b/*/a binds "*").
RequestPath(p) ==
    /\ p # <<>> /\ p[1] = "/"
    /\ \A i \in 1 .. Len(Segments(p)) : Segments(p)[i][1] # "*"

\* The static handler never serves a file other than the one it checked:
\* for a request under its directory (absolutePath's segments begin the
\* request's) that is routed to a createStaticHandler handler and that
\* StripPrefix(absolutePath) hands on, the file FileServer serves is the
\* one fs.Open(c.Param("filepath")) found.  Static builds the route as
\* prefix + Join(relativePath, "/*filepath") but the root as Join(prefix,
\* relativePath), and getRoute binds filepath to the request's remaining
\* segments joined by '/', whatever other routes share the trie.
StaticServesCheckedFile ==
    \A p \in Paths :
        RequestPath(p) =>
            \A n \in {q \in GetRoute("GET", p) : HandlerKey("GET", q) \in DOMAIN handlers} :
                LET h == handlers[HandlerKey("GET", n)]
                IN (h.static /\ IsPrefix(Segments(h.root), Segments(p))
                       /\ StripsPrefix(h.root, p)) =>
                      ServedName(SubSeq(p, Len(h.root) + 1, Len(p)))
                          = DirName(n.params[FilepathName])

=============================================================================
