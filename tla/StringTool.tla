----------------------------- MODULE StringTool -----------------------------
(***************************************************************************)
(* StringUtil (Core/Utility/StringTool).  A string is a sequence of        *)
(* one-character strings; positions start at 1, and npos of a forward      *)
(* search is the position after the last, of a backward search 0.          *)
(***************************************************************************)
EXTENDS Integers, Sequences, SequencesExt, FiniteSetsExt

FirstOf(s, set, from) == Min({i \in from..Len(s) : s[i] \in set} \cup {Len(s) + 1})
FirstNotOf(s, set, from) == Min({i \in from..Len(s) : s[i] \notin set} \cup {Len(s) + 1})
LastOf(s, set) == Max({i \in 1..Len(s) : s[i] \in set} \cup {0})
From(s, i) == SubSeq(s, i, Len(s))

Blank == {" ", "\t", "\r"}
PathDelim == {"\\", "/"}

(* tolower, of the characters the checks use.                              *)
ToLowerCase(str) ==
  [i \in DOMAIN str |-> CASE str[i] = "A" -> "a" [] str[i] = "B" -> "b" [] OTHER -> str[i]]

Trim(str, left, right) ==
  LET l == IF left THEN From(str, FirstNotOf(str, Blank, 1)) ELSE str
  IN IF right THEN SubSeq(l, 1, Max({i \in 1..Len(l) : l[i] \notin Blank} \cup {0})) ELSE l

(* Split: runs of delimiters separate the tokens; maxSplits = 0 is no      *)
(* limit, and what is behind the last token of a limit is dropped.         *)
Split(str, delims, maxSplits) ==
  LET tokens[left \in 1..(Len(str) + 1)] ==
        IF left > Len(str) THEN <<>>
        ELSE LET right == FirstOf(str, delims, left)
             IN <<SubSeq(str, left, right - 1)>>
                  \o tokens[FirstNotOf(str, delims, right)]
      all == tokens[FirstNotOf(str, delims, 1)]
  IN IF maxSplits = 0 THEN all ELSE SubSeq(all, 1, Min({maxSplits, Len(all)}))

(* An empty pattern is neither start nor end of any string.                *)
StartsWith(str, pattern, lowerCase) ==
  LET fold(s) == IF lowerCase THEN ToLowerCase(s) ELSE s
      len == Len(pattern)
  IN 0 < len /\ len <= Len(str) /\ fold(SubSeq(str, 1, len)) = fold(pattern)

EndsWith(str, pattern, lowerCase) ==
  LET fold(s) == IF lowerCase THEN ToLowerCase(s) ELSE s
      len == Len(pattern)
  IN 0 < len /\ len <= Len(str) /\ fold(From(str, Len(str) - len + 1)) = fold(pattern)

(* SplitFilename, WSplitFilename: path, file name and extension; the       *)
(* extension keeps its dot, the path loses its last delimiter.             *)
SplitFilename(qualifiedName) ==
  LET d == LastOf(qualifiedName, PathDelim)
      fileName == From(qualifiedName, d + 1)
      dot == LastOf(fileName, {"."})
  IN [path |-> IF d = 0 THEN <<>> ELSE SubSeq(qualifiedName, 1, d - 1),
      name |-> IF dot = 0 THEN fileName ELSE SubSeq(fileName, 1, dot - 1),
      ext |-> IF dot = 0 THEN <<>> ELSE From(fileName, dot)]

GetFileName(filePath) ==
  LET file == SplitFilename(filePath) IN file.name \o file.ext

GetExt(filePath) == SplitFilename(filePath).ext

(* GetRelativeFrom; WGetRelativeFrom gives the empty string where this one *)
(* gives the file.                                                         *)
RelativeFrom(root, file, otherwise) ==
  IF Len(root) < Len(file) /\ root = SubSeq(file, 1, Len(root))
  THEN From(file, Len(root) + 1) ELSE otherwise
GetRelativeFrom(root, file) == RelativeFrom(root, file, file)
WGetRelativeFrom(root, file) == RelativeFrom(root, file, <<>>)

(* StandardisePath; at() throws for an empty path.                         *)
StandardisePath(init) ==
  LET res == [i \in DOMAIN init |-> IF init[i] = "\\" THEN "/" ELSE init[i]]
  IN IF Last(res) # "/" THEN Append(res, "/") ELSE res

WConcatPath(p0, p1) == p0 \o p1
WIsAbsolutePath(path) == Len(path) >= 2 /\ path[2] = ":"

(* Convert, of bytes: a char is signed and keeps its sign as a wchar_t of  *)
(* 32 bits; the way back keeps the low byte.                               *)
Widen(str) == [i \in DOMAIN str |-> IF str[i] < 128 THEN str[i] ELSE str[i] - 256]
Narrow(wStr) == [i \in DOMAIN wStr |-> wStr[i] % 256]

-----------------------------------------------------------------------------
Ascii == <<"-", "/", "A", "B", "\\", "]", "a", "b", "c">>
Code(c) == CHOOSE i \in DOMAIN Ascii : Ascii[i] = c
Between(x, c, y) ==
  Code(c) \in Code(x)..Code(y) \cup Code(y)..Code(x)

(* Match: the list after "[": the position where c is found, or 0.         *)
Listed(pat, c, from) ==
  LET scan[k \in from..(Len(pat) + 1)] ==
        IF k > Len(pat) \/ pat[k] = "]" THEN 0
        ELSE IF pat[k] = c THEN k
        ELSE IF k < Len(pat) /\ pat[k + 1] = "-"
             THEN IF k + 2 > Len(pat) THEN 0
                  ELSE IF Between(pat[k], c, pat[k + 2]) THEN k ELSE scan[k + 3]
             ELSE scan[k + 1]
  IN scan[from]

(* Match: the loop goes on behind the "]" that follows the hit.            *)
BehindList(pat, hit) == Min({FirstOf(pat, {"]"}, hit), Len(pat)}) + 1

(* Match: the rests of the string "*" tries for the rest of the pattern.   *)
StarRests(s, len) == s..(len + 1)

(* Match: match[p][s] is the loop at pattern position p and string         *)
(* position s; "*" tries every rest of the string.                         *)
Match(parseStr, pattern, caseSensitive) ==
  LET pat == IF caseSensitive THEN pattern ELSE ToLowerCase(pattern)
      str == IF caseSensitive THEN parseStr ELSE ToLowerCase(parseStr)
      match[p \in 1..(Len(pat) + 1)] ==
        [s \in 1..(Len(str) + 1) |->
          IF p > Len(pat) THEN s > Len(str)
          ELSE IF pat[p] = "*"
               THEN p = Len(pat) \/ \E t \in StarRests(s, Len(str)) : match[p + 1][t]
          ELSE /\ s <= Len(str)
               /\ \/ pat[p] = "?" /\ match[p + 1][s + 1]
                  \/ /\ pat[p] = "[" /\ Listed(pat, str[s], p + 1) # 0
                     /\ match[BehindList(pat, Listed(pat, str[s], p + 1))][s + 1]
                  \/ /\ pat[p] = "\\" /\ p < Len(pat) /\ pat[p + 1] = str[s]
                     /\ match[p + 2][s + 1]
                  \/ pat[p] \notin {"?", "[", "\\"} /\ pat[p] = str[s] /\ match[p + 1][s + 1]]
  IN match[1][1]

-----------------------------------------------------------------------------
(* The language of a pattern, stated without a search: a pattern is a      *)
(* sequence of tokens, and the string is cut into one piece for each.      *)
Tokens(letters) ==
  {<<"*">>, <<"?">>} \cup ({"one", "quoted"} \X letters)
    \cup ({"list", "range"} \X letters \X letters)

Written(token) ==
  CASE token[1] \in {"*", "?"} -> token
    [] token[1] = "one" -> <<token[2]>>
    [] token[1] = "quoted" -> <<"\\", token[2]>>
    [] token[1] = "list" -> <<"[", token[2], token[3], "]">>
    [] token[1] = "range" -> <<"[", token[2], "-", token[3], "]">>

Stands(token, piece) ==
  \/ token = <<"*">>
  \/ /\ Len(piece) = 1
     /\ CASE token = <<"?">> -> TRUE
          [] token[1] \in {"one", "quoted"} -> piece[1] = token[2]
          [] token[1] = "list" -> piece[1] \in {token[2], token[3]}
          [] token[1] = "range" -> Between(token[2], piece[1], token[3])

Denotes(tokens, str) ==
  \E cut \in [0..Len(tokens) -> 0..Len(str)] :
    /\ cut[0] = 0 /\ cut[Len(tokens)] = Len(str)
    /\ \A i \in 1..Len(tokens) : /\ cut[i - 1] <= cut[i]
                                 /\ Stands(tokens[i], SubSeq(str, cut[i - 1] + 1, cut[i]))

(* Text in any encoding survives the wide string and back, but only bytes  *)
(* below 128 are the wide character they were meant to be.                 *)
ConversionsAgree(bytes) ==
  /\ Narrow(Widen(bytes)) = bytes
  /\ Widen(bytes) = bytes <=> \A i \in DOMAIN bytes : bytes[i] < 128

(* Match decides the language of a pattern: the recursive call for "*",    *)
(* the scan of a list and the jump behind its "]" neither skip nor repeat  *)
(* a character.  Without regard to case it decides it for lowered strings. *)
MatchAgrees(patterns, str) ==
  \A tokens \in patterns :
    LET pattern == FlattenSeq([i \in DOMAIN tokens |-> Written(tokens[i])])
    IN /\ Match(str, pattern, TRUE) <=> Denotes(tokens, str)
       /\ Match(str, pattern, FALSE) <=> Match(ToLowerCase(str), ToLowerCase(pattern), TRUE)

(* "Path is standardised as in standardisePath" (SplitFilename): the path  *)
(* of a file has forward slashes only and ends with one.                   *)
PathIsStandardised(p) ==
  LET path == SplitFilename(p).path IN path # <<>> => path = StandardisePath(path)

(* The parts of a file name make up the name again, its extension is that  *)
(* of no directory, and a path relative to a root leads back to the file.  *)
(* The path has lost its last delimiter and keeps the others as they are,  *)
(* against what the comment of SplitFilename says (PathIsStandardised).    *)
PathsAgree(root, p) ==
  LET file == SplitFilename(p)
  IN /\ \/ GetFileName(p) = p /\ file.path = <<>>
        \/ \E d \in PathDelim : p = file.path \o <<d>> \o GetFileName(p)
     /\ PathDelim \cap ToSet(GetFileName(p)) = {}
     /\ GetExt(p) # <<>> => "." = Head(GetExt(p)) /\ "." \notin ToSet(Tail(GetExt(p)))
     /\ GetRelativeFrom(root, p) # p => WConcatPath(root, GetRelativeFrom(root, p)) = p
     /\ p # <<>> => /\ GetRelativeFrom(root, WConcatPath(root, p)) = p
                    /\ WGetRelativeFrom(root, WConcatPath(root, p)) = p
                    /\ EndsWith(WConcatPath(root, p), p, FALSE)
                    /\ StandardisePath(StandardisePath(p)) = StandardisePath(p)
     /\ root # <<>> => StartsWith(WConcatPath(root, p), root, FALSE)

(* Where the runs of characters that are no delimiters start and end.      *)
Starts(s, delims) ==
  {i \in DOMAIN s : s[i] \notin delims /\ (i = 1 \/ s[i - 1] \in delims)}
Ends(s, delims) ==
  {i \in DOMAIN s : s[i] \notin delims /\ (i = Len(s) \/ s[i + 1] \in delims)}

(* The tokens of Split are these runs, all of them, each once and in their *)
(* order; a limit cuts the list; and a trimmed string is trimmed from      *)
(* either end first.                                                       *)
SplitAgrees(delims, s) ==
  LET tokens == Split(s, delims, 0)
  IN /\ \E first, last \in [DOMAIN tokens -> DOMAIN s] :
          /\ ToSet(first) = Starts(s, delims) /\ ToSet(last) = Ends(s, delims)
          /\ \A i \in DOMAIN tokens : /\ first[i] <= last[i] /\ (i > 1 => last[i - 1] < first[i])
                                       /\ tokens[i] = SubSeq(s, first[i], last[i])
     /\ \A n \in 1..3 : Split(s, delims, n) = SubSeq(tokens, 1, Min({n, Len(tokens)}))
     /\ Trim(s, TRUE, TRUE) = Trim(Trim(s, FALSE, TRUE), TRUE, FALSE)
=============================================================================
