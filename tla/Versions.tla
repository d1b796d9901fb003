------------------------------ MODULE Versions ------------------------------
(***************************************************************************)
(* The order of version strings (config/version_policy.go): releases, the  *)
(* version a database carries and the version of the build are compared    *)
(* with it.  A parsed version is a record; CompareVersions answers nothing *)
(* for one that does not parse.                                            *)
(***************************************************************************)
EXTENDS Integers, Sequences, SequencesExt

\* An identifier of a pre-release is <<0, n>> when numeric and <<1, k>> when
\* alphanumeric, k its rank in the order of strings.
NoVersion == [ok |-> FALSE, core |-> <<0, 0, 0>>, pre |-> <<>>]
VXVersion(major, minor, patch, pre) ==
  [ok |-> TRUE, core |-> <<major, minor, patch>>, pre |-> pre]

VXSign(n) == IF n > 0 THEN 1 ELSE IF n < 0 THEN -1 ELSE 0
\* The first position that differs decides; both sequences have one length.
FirstDifference(l, r, compare(_, _)) ==
  LET differ == {i \in 1..Len(l) : compare(l[i], r[i]) # 0}
  IN IF differ = {} THEN 0
     ELSE LET i == CHOOSE j \in differ : \A k \in differ : j <= k
          IN compare(l[i], r[i])
CompareNumber(a, b) == VXSign(a - b)
CompareIdentifier(a, b) == IF a[1] # b[1] THEN VXSign(a[1] - b[1]) ELSE VXSign(a[2] - b[2])
ComparePrerelease(l, r) ==
  IF l = <<>> \/ r = <<>> THEN VXSign(Len(r) - Len(l))
  ELSE LET limit == IF Len(l) < Len(r) THEN Len(l) ELSE Len(r)
           head == FirstDifference(SubSeq(l, 1, limit), SubSeq(r, 1, limit),
                                   CompareIdentifier)
       IN IF head # 0 THEN head ELSE VXSign(Len(l) - Len(r))
CompareSemver(l, r) ==
  LET core == FirstDifference(l.core, r.core, CompareNumber)
  IN IF core # 0 THEN core ELSE ComparePrerelease(l.pre, r.pre)
\* CompareVersions answers only for two versions that parse.
VXAbove(l, r) == l.ok /\ r.ok /\ CompareSemver(l, r) > 0
\* VersionIsNewer: over a running version that does not parse, such as a
\* development build, any version that does is newer.
VersionIsNewer(candidate, current) ==
  IF candidate.ok /\ current.ok THEN CompareSemver(candidate, current) > 0 ELSE candidate.ok
\* parseVersion on the fields of a version: two fields get a zero patch where
\* the legacy form is allowed, every field is a number without padding, and no
\* identifier of the pre-release is empty or a padded number.
VXField(value, padded) == [value |-> value, padded |-> padded]
VXDigits(f) == f.value \in Nat /\ ~f.padded
VXParse(fields, pre, legacyMinor) ==
  LET core == IF Len(fields) = 2 /\ legacyMinor THEN Append(fields, VXField(0, FALSE))
              ELSE fields
  IN IF /\ Len(core) = 3 /\ \A i \in 1..3 : VXDigits(core[i])
        /\ \A i \in DOMAIN pre : ~pre[i].padded
       THEN VXVersion(core[1].value, core[2].value, core[3].value,
                    [i \in DOMAIN pre |-> pre[i].value])
       ELSE NoVersion
-----------------------------------------------------------------------------
(* The order against its definition: the places of two versions compared   *)
(* in turn.  A release ends with places above every identifier, the        *)
(* pre-release that stops earlier with one below.                          *)
VXIds == {VXField(<<0, 1>>, FALSE), VXField(<<0, 10>>, FALSE), VXField(<<0, 1>>, TRUE),
        VXField(<<1, 1>>, FALSE), VXField(<<1, 2>>, FALSE)}
VXPrereleases == {<<>>} \cup {<<a>> : a \in VXIds}
                 \cup {<<a, b>> : a \in {VXField(<<0, 1>>, FALSE), VXField(<<1, 1>>, FALSE)}, b \in VXIds}
VXCores == {<<1, 5>>, <<1, 5, 11>>, <<1, 10, 0>>, <<2>>, <<2, 0, 0>>}
VXSample == {VXParse([i \in DOMAIN core |-> VXField(core[i], FALSE)], pre, TRUE) :
             core \in VXCores, pre \in VXPrereleases}
VXPlace(v, i) == CASE i <= 3 -> <<0, v.core[i]>>
                   [] i > 3 /\ v.pre = <<>> -> <<2, 0>>
                   [] i > 3 /\ v.pre # <<>> /\ i - 3 <= Len(v.pre) -> v.pre[i - 3]
                   [] OTHER -> <<-1, 0>>
VXPlaces(l, r) == 1..(4 + Len(l.pre) + Len(r.pre))
VXLess(a, b) == a[1] < b[1] \/ (a[1] = b[1] /\ a[2] < b[2])
VXBefore(l, r) ==
  \E i \in VXPlaces(l, r) : /\ \A j \in 1..(i - 1) : VXPlace(l, j) = VXPlace(r, j)
                            /\ VXLess(VXPlace(l, i), VXPlace(r, i))

\* CompareVersions is the semantic-version order on what parses: numeric
\* identifiers below alphanumeric ones, a shorter pre-release below its
\* extension, every pre-release below its release, 1.10 above 1.5; and a tag
\* that does not parse is never newer.  The upgrade path of the database, the
\* choice of a release on a channel and the refusal of downgrades rest on it.
SemverOrder(l, r) ==
  IF l.ok /\ r.ok
    THEN CompareSemver(l, r) = IF VXBefore(l, r) THEN -1
                               ELSE IF VXBefore(r, l) THEN 1 ELSE 0
    ELSE VersionIsNewer(l, r) = l.ok
=============================================================================
