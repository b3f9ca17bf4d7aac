------------------------- MODULE OpenArchiveProofs -------------------------
(***************************************************************************)
(* What every opener of a path gets and what an append leaves there, for   *)
(* any openers, names, contents and plans.                                 *)
(***************************************************************************)
EXTENDS OpenArchive, SequenceTheorems, TLAPS

Lenient == <<"lenient", "">>
Formats == Forms \cup {Zipx, Unknown, Lenient}
OpenerPcs == {"idle", "sniffed", "strict", "remember", "fallback", "returned"}
AppendPcs == {"idle", "list", "plan", "open", "writing", "done", "failed", "refused"}
Calls == [pc : OpenerPcs, format : Formats, backend : Formats, reads : BOOLEAN]
Files == [form : Forms, health : Healths, names : Seq(EntryNames)]
Appends == [pc : AppendPcs, plan : Seq(EntryNames), existing : SUBSET EntryNames,
            base : Seq(EntryNames), added : Seq(EntryNames), skipped : Seq(EntryNames),
            health : Healths]

TypeOK ==
  /\ name \in Names
  /\ file \in Files
  /\ cached \in BOOLEAN /\ spoiled \in BOOLEAN
  /\ opener \in [Openers -> Calls]
  /\ append \in Appends
  /\ puts \in Nat /\ steady \subseteq Openers \cup {"append"}

---------------------------------------------------------------------------

\* The halves of a format.
LEMMA Parts ==
  /\ \A k : Single(k)[1] = "single" /\ Single(k)[2] = k
  /\ \A k : Tar(k)[1] = "tar" /\ Tar(k)[2] = k
  /\ \A f : Plain(f)[1] = f /\ Plain(f)[2] = ""
  /\ ZipFile[1] = "zip" /\ ZipFile[2] = "" /\ Zipx[1] = "zip" /\ Zipx[2] = "x"
BY DEF Single, Tar, Plain, ZipFile, Zipx

\* Formats are equal only where both halves are.
LEMMA Apart ==
  /\ \A k, g : Single(k) = Single(g) => k = g
  /\ \A k, g : Tar(k) = Tar(g) => k = g
  /\ \A k, g : Plain(k) = Plain(g) => k = g
  /\ \A k, g : Single(k) # Tar(g)
  /\ \A k, g : Single(k) = Plain(g) => g = "single"
  /\ \A k, g : Tar(k) = Plain(g) => g = "tar"
  /\ \A k : Single(k) # ZipFile /\ Single(k) # Zipx /\ Tar(k) # ZipFile /\ Tar(k) # Zipx
  /\ \A g : Plain(g) # Zipx
  /\ \A g : Plain(g) = ZipFile => g = "zip"
  /\ ZipFile # Zipx
<1>1. \A k, g : Single(k) = Single(g) => k = g
  BY DEF Single
<1>2. \A k, g : Tar(k) = Tar(g) => k = g
  BY DEF Tar
<1>3. \A k, g : Plain(k) = Plain(g) => k = g
  BY DEF Plain
<1>4. \A k, g : Single(k) # Tar(g)
  BY DEF Single, Tar
<1>5. \A k, g : Single(k) = Plain(g) => g = "single"
  BY DEF Single, Plain
<1>6. \A k, g : Tar(k) = Plain(g) => g = "tar"
  BY DEF Tar, Plain
<1>7. \A k : Single(k) # ZipFile /\ Single(k) # Zipx /\ Tar(k) # ZipFile /\ Tar(k) # Zipx
  BY DEF Single, Tar, ZipFile, Zipx
<1>8. \A g : Plain(g) # Zipx
  BY DEF Plain, Zipx
<1>9. \A g : Plain(g) = ZipFile => g = "zip"
  BY DEF Plain, ZipFile
<1>10. ZipFile # Zipx
  BY DEF ZipFile, Zipx
<1> QED
  BY <1>1, <1>2, <1>3, <1>4, <1>5, <1>6, <1>7, <1>8, <1>9, <1>10

\* What the backend for a file of this form and name is.
Itself(form, n) == Backend(Detect(form, n), n) = IF form = Tar("v7") THEN Tar("") ELSE form

\* What shows a codec's signature is one stream, or a tarball if its name says so.
LEMMA CodecUpgrade ==
  ASSUME NEW k \in Codecs, NEW t \in {Tar(k), Single(k)}, NEW n
  PROVE  /\ NamesTarball(n, k) => UpgradeWithExtension(t, n) = Tar(k)
         /\ ~NamesTarball(n, k) /\ n.ext = k => UpgradeWithExtension(t, n) = Single(k)
<1>1. t[2] = k /\ t # ZipFile
  BY Parts, Apart
<1> QED
  BY <1>1 DEF UpgradeWithExtension

\* A compressed file or tarball.
LEMMA CodecIsItself ==
  ASSUME NEW k \in Codecs, NEW form \in {Single(k), Tar(k)}, NEW n, Usual(form, n)
  PROVE  Itself(form, n)
<1>1. form[2] = k /\ form[1] \in {"single", "tar"} /\ "" \notin Codecs /\ k # "none"
      /\ k \notin {"", "lzma", "v7", "x"}
  BY Parts DEF Codecs
<1>2. Signature(form) = k
  BY <1>1, Parts DEF Signature
<1>3. DetectBytes(k) \in {Tar(k), Single(k)}
  BY DEF DetectBytes, Codecs
<1>4. CASE form = Single(k)
  <2>1. n.ext = k /\ n.stem = "plain"
    BY <1>1, <1>4, Apart DEF Usual
  <2>2. ~NamesTarball(n, k)
    BY <2>1 DEF NamesTarball, DoubleExtension, ShortTar, Codecs
  <2>3. Detect(form, n) = Single(k)
    BY <1>1, <1>2, <1>3, <2>1, <2>2, CodecUpgrade DEF Detect
  <2>4. Single(k) # Zipx /\ Single(k) # Tar("xz") /\ Single(k) # Tar("v7")
    BY Parts, Apart
  <2> QED
    BY <1>4, <2>3, <2>4 DEF Itself, Backend
<1>5. CASE form = Tar(k)
  <2>1. (n.ext = k /\ n.stem = ".tar") \/ n.ext \in ShortTar[k]
    BY <1>1, <1>5, Apart DEF Usual
  <2>2. NamesTarball(n, k)
    BY <2>1 DEF NamesTarball, DoubleExtension
  <2>3. Detect(form, n) = Tar(k)
    BY <1>1, <1>2, <1>3, <2>2, CodecUpgrade DEF Detect
  <2>4. Tar(k) # Zipx /\ Tar(k) # Tar("v7")
    BY <1>1, Apart
  <2>5. n.ext # "tlz"
    BY <2>1 DEF ShortTar, Codecs
  <2> QED
    BY <1>5, <2>3, <2>4, <2>5 DEF Itself, Backend
<1> QED
  BY <1>4, <1>5

\* A ZIP.
LEMMA ZipIsItself ==
  ASSUME NEW n
  PROVE  Itself(ZipFile, n)
<1>1. ZipFile[2] = "" /\ ZipFile[1] = "zip" /\ "" \notin Codecs /\ ZipFile = Plain("zip")
      /\ ZipFile # Tar("") /\ ZipFile # Tar("xz") /\ ZipFile # Tar("v7")
  BY Parts DEF Codecs, ZipFile, Plain
<1>2. Signature(ZipFile) = "zip" /\ DetectBytes("zip") = ZipFile
  BY <1>1 DEF Signature, DetectBytes
<1>3. Detect(ZipFile, n) \in {ZipFile, Zipx}
  BY <1>2 DEF Detect, UpgradeWithExtension
<1> QED
  BY <1>1, <1>3 DEF Itself, Backend

\* Formats that show a signature of their own.
LEMMA SignedIsItself ==
  ASSUME NEW f \in {"7z", "rar", "cab", "msi", "deb"}, NEW n, Usual(Plain(f), n)
  PROVE  Itself(Plain(f), n)
<1> DEFINE form == Plain(f)
<1>1. /\ form[1] = f /\ form[2] = "" /\ "" \notin Codecs /\ form # ZipFile /\ form # Zipx
      /\ \A k : form # Tar(k) /\ form # Single(k)
  BY Parts DEF Codecs
<1>2. \A g : form = Plain(g) => f = g
  BY Parts, Apart
<1> HIDE DEF form
<1>3. n.ext = f
  BY <1>1, <1>2 DEF Usual, form
<1>4. Signature(form) # "none" /\ DetectBytes(Signature(form)) = form
  <2>1. CASE f \in {"7z", "rar", "cab"}
    BY <1>1, <2>1 DEF Signature, DetectBytes, form
  <2>2. CASE f = "msi"
    BY <1>1, <2>2 DEF Signature, DetectBytes, form
  <2>3. CASE f = "deb"
    BY <1>1, <2>3 DEF Signature, DetectBytes, form
  <2> QED
    BY <2>1, <2>2, <2>3
<1>5. UpgradeWithExtension(form, n) = form
  BY <1>1, <1>3 DEF UpgradeWithExtension
<1>6. Detect(form, n) = form
  BY <1>4, <1>5 DEF Detect
<1> QED
  BY <1>1, <1>6 DEF Itself, Backend, form

\* Formats that are known by their names only, and tar, which shows "ustar" or nothing.
LEMMA NamedIsItself ==
  ASSUME NEW form \in {Single("lzma"), Tar("lzma"), Tar(""), Tar("v7"), Plain("iso")},
         NEW n, Usual(form, n)
  PROVE  Itself(form, n)
<1>0. {"", "lzma", "v7"} \cap Codecs = {}
  BY DEF Codecs
<1>1. form[2] \notin Codecs /\ form[1] \in {"single", "tar", "iso"} /\ form # ZipFile /\ form # Zipx
  <2>1. form[2] \in {"", "lzma", "v7"} /\ form[1] \in {"single", "tar", "iso"}
    BY Parts
  <2> QED
    BY <1>0, <2>1, Parts
<1>2. CASE form = Tar("")
  <2>1. Signature(form) = "ustar" /\ DetectBytes("ustar") = form
    BY <1>1, <1>2 DEF Signature, DetectBytes
  <2>2. form # Plain("msi") /\ form # Plain("deb") /\ form # Tar("xz") /\ form # Tar("v7")
    BY <1>2, Apart
  <2>3. Detect(form, n) = form
    BY <1>1, <2>1, <2>2 DEF Detect, UpgradeWithExtension
  <2> QED
    BY <1>1, <2>2, <2>3 DEF Itself, Backend
<1>3. CASE form # Tar("")
  <2>1. Signature(form) = "none"
    BY <1>1, <1>3 DEF Signature
  <2>2. Detect(form, n) = ExtensionHint(n)
    BY <2>1 DEF Detect
  <2>3. CASE form = Single("lzma")
    <3>1. n.ext = "lzma"
      BY <1>0, <1>1, <2>3, Apart DEF Usual
    <3>2. ExtensionHint(n) = form
      BY <2>3, <3>1 DEF ExtensionHint, ZipAliases
    <3>3. form # Tar("xz") /\ form # Tar("v7")
      BY <2>3, Apart
    <3> QED
      BY <1>1, <2>2, <3>2, <3>3 DEF Itself, Backend
  <2>4. CASE form = Tar("lzma")
    <3>1. n.ext = "tlz"
      BY <1>0, <1>1, <2>4, Apart DEF Usual
    <3>2. ExtensionHint(n) = Tar("xz")
      BY <3>1 DEF ExtensionHint, ZipAliases
    <3>3. form # Tar("v7") /\ Tar("xz") # Zipx
      BY <2>4, Apart
    <3> QED
      BY <2>2, <2>4, <3>1, <3>2, <3>3 DEF Itself, Backend
  <2>5. CASE form = Tar("v7")
    <3>1. n.ext = "tar"
      BY <1>0, <1>1, <2>5, Apart DEF Usual
    <3>2. ExtensionHint(n) = Tar("")
      BY <3>1 DEF ExtensionHint, ZipAliases
    <3>3. Tar("") # Zipx /\ Tar("") # Tar("xz")
      BY Parts, Apart
    <3> QED
      BY <2>2, <2>5, <3>2, <3>3 DEF Itself, Backend
  <2>6. CASE form = Plain("iso")
    <3>1. n.ext \in {"iso", "img"}
      <4>1. \A f \in {"7z", "rar", "cab", "msi", "deb"} : form # Plain(f)
        BY <2>6, Apart
      <4>2. \A k : form # Tar(k) /\ form # Single(k)
        BY <2>6, Apart
      <4> QED
        BY <1>1, <4>1, <4>2 DEF Usual
    <3>2. ExtensionHint(n) = form
      BY <2>6, <3>1 DEF ExtensionHint, ZipAliases
    <3>3. form # Tar("xz") /\ form # Tar("v7")
      BY <2>6, Apart
    <3> QED
      BY <1>1, <2>2, <3>2, <3>3 DEF Itself, Backend
  <2> QED
    BY <1>3, <2>3, <2>4, <2>5, <2>6
<1> QED
  BY <1>2, <1>3

\* Whatever a file is, under a usual name the dispatcher has the backend for it.
LEMMA UsualIsItself ==
  ASSUME NEW form, NEW n, Usual(form, n)
  PROVE  Itself(form, n)
<1>1. \/ form = ZipFile
      \/ \E k \in Codecs : form \in {Single(k), Tar(k)}
      \/ \E f \in {"7z", "rar", "cab", "msi", "deb"} : form = Plain(f)
      \/ form \in {Single("lzma"), Tar("lzma"), Tar(""), Tar("v7"), Plain("iso")}
  BY DEF Usual
<1> QED
  BY <1>1, ZipIsItself, CodecIsItself, SignedIsItself, NamedIsItself

---------------------------------------------------------------------------

\* The formats that are named in the code.
LEMMA FormatTypes ==
  /\ \A k \in Codecs : Tar(k) \in Formats /\ Single(k) \in Formats
  /\ Single("lzma") \in Formats /\ Tar("") \in Formats /\ Tar("lzma") \in Formats
  /\ \A k \in {"7z", "rar", "cab", "msi", "deb", "iso"} : Plain(k) \in Formats
  /\ ZipFile \in Formats /\ Plain("zip") = ZipFile
  /\ Zipx \in Formats /\ Unknown \in Formats /\ Lenient \in Formats
<1>1. Plain("zip") = ZipFile
  BY DEF Plain, ZipFile
<1> QED
  BY <1>1 DEF Formats, Forms

\* What the detector makes of a file is one of them.
LEMMA DetectType ==
  ASSUME NEW form \in Forms, NEW n
  PROVE  Detect(form, n) \in Formats
<1>1. ExtensionHint(n) \in Formats
  <2>1. (\E k \in Codecs : n.ext = k \/ n.ext \in ShortTar[k])
        => (CHOOSE k \in Codecs : n.ext = k \/ n.ext \in ShortTar[k]) \in Codecs
    OBVIOUS
  <2>2. "gz" \in Codecs /\ "xz" \in Codecs
    BY DEF Codecs
  <2> QED
    BY <2>1, <2>2, FormatTypes DEF ExtensionHint
<1>2. \A t \in Formats : UpgradeWithExtension(t, n) \in Formats
  BY FormatTypes DEF UpgradeWithExtension
<1>3. Signature(form) \in {"none", "zip", "7z", "rar", "cab", "ustar", "ole2", "ar"} \cup Codecs
  BY DEF Signature
<1>4. Signature(form) # "none" => DetectBytes(Signature(form)) \in Formats
  <2> DEFINE s == Signature(form)
  <2> HIDE DEF s
  <2>1. s \in {"gz", "zst", "lz4"} => DetectBytes(s) = Single(s)
    BY DEF DetectBytes
  <2>2. s \in {"xz", "bz2"} => DetectBytes(s) = Tar(s)
    BY DEF DetectBytes
  <2>3. s \in {"zip", "7z", "rar", "cab"} => DetectBytes(s) = Plain(s)
    BY DEF DetectBytes
  <2>4. (s = "ustar" => DetectBytes(s) = Tar("")) /\ (s = "ole2" => DetectBytes(s) = Plain("msi"))
        /\ (s = "ar" => DetectBytes(s) = Plain("deb"))
    BY DEF DetectBytes
  <2>5. s \in {"none", "zip", "7z", "rar", "cab", "ustar", "ole2", "ar"} \cup Codecs
    BY <1>3 DEF s
  <2>6. s # "none" => DetectBytes(s) \in Formats
    BY <2>1, <2>2, <2>3, <2>4, <2>5, FormatTypes DEF Codecs
  <2> QED
    BY <2>6 DEF s
<1> QED
  BY <1>1, <1>2, <1>4 DEF Detect

\* So is the backend.
LEMMA BackendType ==
  ASSUME NEW format \in Formats, NEW n
  PROVE  Backend(format, n) \in Formats
BY FormatTypes DEF Backend

---------------------------------------------------------------------------
\* A sequence with one more member.
LEMMA OneMore ==
  ASSUME NEW S, NEW s \in Seq(S), NEW x \in S
  PROVE  Append(s, x) \in Seq(S) /\ ToSet(Append(s, x)) = ToSet(s) \cup {x}
<1>1. /\ Append(s, x) \in Seq(S) /\ DOMAIN s = 1 .. Len(s) /\ Len(s) \in Nat
      /\ DOMAIN Append(s, x) = 1 .. Len(s) + 1
      /\ \A i \in 1 .. Len(s) : Append(s, x)[i] = s[i]
      /\ Append(s, x)[Len(s) + 1] = x
  OBVIOUS
<1>2. ToSet(Append(s, x)) \subseteq ToSet(s) \cup {x}
  BY <1>1 DEF ToSet
<1>3. ToSet(s) \cup {x} \subseteq ToSet(Append(s, x))
  <2>1. Len(s) + 1 \in 1 .. Len(s) + 1 /\ \A i \in 1 .. Len(s) : i \in 1 .. Len(s) + 1
    BY <1>1
  <2> QED
    BY <1>1, <2>1 DEF ToSet
<1> QED
  BY <1>1, <1>2, <1>3

\* A name that neither half holds may follow.
LEMMA OnceMore ==
  ASSUME NEW s \in Seq(EntryNames), NEW t \in Seq(EntryNames), NEW x \in EntryNames,
         IsInjective(s \o t), x \notin ToSet(s) \cup ToSet(t)
  PROVE  IsInjective(s \o Append(t, x)) /\ s \o t \o <<x>> = s \o Append(t, x)
<1> DEFINE u == s \o t
<1>1. /\ u \in Seq(EntryNames) /\ Len(s) \in Nat /\ Len(t) \in Nat /\ Len(u) = Len(s) + Len(t)
      /\ DOMAIN s = 1 .. Len(s) /\ DOMAIN t = 1 .. Len(t)
      /\ \A i \in 1 .. Len(u) : u[i] = IF i <= Len(s) THEN s[i] ELSE t[i - Len(s)]
  OBVIOUS
<1>2. x \notin ToSet(u)
  <2>1. \A i \in 1 .. Len(u) : IF i <= Len(s) THEN i \in 1 .. Len(s) ELSE i - Len(s) \in 1 .. Len(t)
    BY <1>1
  <2>2. \A i \in DOMAIN u : u[i] \in ToSet(s) \cup ToSet(t)
    BY <1>1, <2>1 DEF ToSet
  <2> QED
    BY <2>2 DEF ToSet
<1>3. s \o Append(t, x) = Append(u, x) /\ u \o <<x>> = Append(u, x)
  <2>0. <<x>> \in Seq(EntryNames)
    OBVIOUS
  <2>1. <<x>> \in Seq(EntryNames) /\ Append(t, x) = t \o <<x>>
    BY <2>0, AppendIsConcat, Zenon
  <2>2. u \o <<x>> = s \o (t \o <<x>>)
    BY <2>1, ConcatAssociative
  <2>3. Append(u, x) = u \o <<x>>
    BY <1>1, AppendIsConcat
  <2> QED
    BY <2>1, <2>2, <2>3
<1> HIDE DEF u
<1>4. /\ DOMAIN u = 1 .. Len(u) /\ DOMAIN Append(u, x) = 1 .. Len(u) + 1
      /\ \A i \in 1 .. Len(u) : Append(u, x)[i] = u[i]
      /\ Append(u, x)[Len(u) + 1] = x /\ Len(u) \in Nat
  BY <1>1
<1>5. \A i \in 1 .. Len(u) + 1 : i \in 1 .. Len(u) \/ i = Len(u) + 1
  BY <1>4
<1>6. IsInjective(Append(u, x))
  <2>1. \A i \in DOMAIN u : u[i] # x
    BY <1>2 DEF ToSet
  <2>2. \A i, j \in DOMAIN u : u[i] = u[j] => i = j
    BY DEF IsInjective, u
  <2> QED
    BY <1>4, <1>5, <2>1, <2>2 DEF IsInjective
<1> QED
  BY <1>3, <1>6 DEF u

\* The empty sequence changes nothing.
LEMMA NoMore ==
  ASSUME NEW s \in Seq(EntryNames)
  PROVE  s \o <<>> = s /\ ToSet(<<>>) = {}
BY DEF ToSet
---------------------------------------------------------------------------

\* The types.
LEMMA TypeInit == Init => TypeOK
<1> SUFFICES ASSUME Init PROVE TypeOK
  OBVIOUS
<1>1. file \in Files
  BY OpenAssumption DEF Init, Healths, Files, Appends, AppendPcs
<1>2. opener \in [Openers -> Calls]
  BY FormatTypes DEF Init, Calls, OpenerPcs
<1>3. append \in Appends
  BY DEF Init, Healths, Files, Appends, AppendPcs
<1>4. spoiled \in BOOLEAN
  BY DEF Init, Spoils
<1> QED
  BY <1>1, <1>2, <1>3, <1>4 DEF Init, TypeOK

\* No step of an opener leaves them.
LEMMA OpenerTypes ==
  ASSUME TypeOK, NEW o \in Openers,
         Sniff(o) \/ LookUp(o) \/ OpenStrict(o) \/ DeadlineExceeded(o) \/ Remember(o)
         \/ OpenFallback(o) \/ Close(o)
  PROVE  TypeOK'
<1>0. \A b, c : Reads(b, c) \in BOOLEAN
  <2> SUFFICES ASSUME NEW b, NEW c PROVE Reads(b, c) \in BOOLEAN
    OBVIOUS
  <2>1. CASE b = <<"lenient", "">>
    BY <2>1 DEF Reads
  <2>2. CASE b # <<"lenient", "">> /\ b = ZipFile
    BY <2>2 DEF Reads, Strict
  <2>3. CASE b # <<"lenient", "">> /\ b # ZipFile
    BY <2>3 DEF Reads
  <2> QED
    BY <2>1, <2>2, <2>3
<1>1. CASE Sniff(o)
  <2>1. Detect(file.form, name) \in Formats
    BY DetectType, OpenAssumption DEF TypeOK, Calls, OpenerPcs, Calls, Files
  <2> QED
    BY <1>1, <2>1, FormatTypes DEF TypeOK, Calls, OpenerPcs, Sniff
<1>2. CASE LookUp(o)
  <2>1. Goes(o, "fallback") \/ Goes(o, "strict")
    BY <1>2 DEF LookUp
  <2>2. opener' \in [Openers -> Calls]
    BY <2>1 DEF TypeOK, Calls, OpenerPcs, Goes
  <2> QED
    BY <1>2, <2>2 DEF TypeOK, LookUp
<1>5. CASE DeadlineExceeded(o)
  BY <1>5 DEF TypeOK, Calls, OpenerPcs, DeadlineExceeded, Goes
<1>6. CASE Remember(o)
  BY <1>6 DEF TypeOK, Calls, OpenerPcs, Remember, Goes
<1>7. CASE Close(o)
  BY <1>7 DEF TypeOK, Calls, OpenerPcs, Close, Goes
<1>3. CASE OpenStrict(o)
  <2>1. Backend(opener[o].format, name) \in Formats
    BY BackendType DEF TypeOK, Calls, OpenerPcs, Calls, Files
  <2>2. CASE Goes(o, "remember")
    BY <1>3, <2>2 DEF TypeOK, Calls, OpenerPcs, OpenStrict, Goes
  <2>3. CASE Returns(o, Backend(opener[o].format, name))
    <3>1. opener' \in [Openers -> Calls]
      <4> DEFINE b == Backend(opener[o].format, name)
      <4> HIDE DEF b
      <4>1. b \in Formats /\ Reads(b, file) \in BOOLEAN
        BY <1>0, <2>1 DEF b
      <4>2. Returns(o, b)
        BY <2>3 DEF b
      <4> QED
        BY <4>1, <4>2 DEF TypeOK, Calls, OpenerPcs, Returns
    <3> QED
      BY <1>3, <3>1 DEF TypeOK, Calls, OpenerPcs, OpenStrict
  <2> QED
    BY <1>3, <2>2, <2>3 DEF OpenStrict
<1>4. CASE OpenFallback(o)
  <2>1. PICK b \in {Lenient, Unknown} : Returns(o, b)
    BY <1>4 DEF OpenFallback, Lenient
  <2>2. Reads(b, file) \in BOOLEAN /\ b \in Formats
    BY <1>0, FormatTypes
  <2>3. opener' \in [Openers -> Calls]
    BY <2>1, <2>2 DEF TypeOK, Calls, OpenerPcs, Returns
  <2> QED
    BY <1>4, <2>3 DEF TypeOK, Calls, OpenerPcs, OpenFallback
<1> QED
  BY <1>1, <1>2, <1>3, <1>4, <1>5, <1>6, <1>7

\* Nor does one of the appender or of a program that replaces the file.
LEMMA AppendTypes ==
  ASSUME TypeOK,
         Replace \/ Confirm \/ ExistingEntryNames \/ PlanInputs \/ OpenForAppend
         \/ SkipExisting \/ WriteOne \/ WriteFails \/ Finish
  PROVE  TypeOK'
<1>1. CASE Replace
  <2>1. file' \in Files
    BY <1>1, OpenAssumption DEF Replace, Files
  <2>2. spoiled' \in BOOLEAN
    BY <1>1 DEF Replace, Spoils
  <2> QED
    BY <1>1, <2>1, <2>2 DEF Replace, TypeOK, Appends, AppendPcs, Files
<1>2. CASE Confirm
  BY <1>2 DEF Confirm, Refused, TypeOK, Appends, AppendPcs, Files
<1>3. CASE ExistingEntryNames
  <2>1. ToSet(file.names) \in SUBSET EntryNames
    BY DEF TypeOK, Files, ToSet
  <2> QED
    BY <1>3, <2>1 DEF ExistingEntryNames, Refused, TypeOK, Appends, AppendPcs, Files
<1>4. CASE PlanInputs
  <2>1. CASE Refused
    BY <1>4, <2>1 DEF PlanInputs, Refused, TypeOK, Appends, AppendPcs, Files
  <2>2. CASE \E p \in Plans : append' = [append EXCEPT !.pc = "open", !.plan = p]
    BY <1>4, <2>2, OpenAssumption DEF PlanInputs, TypeOK, Appends, AppendPcs, Files
  <2> QED
    BY <1>4, <2>1, <2>2 DEF PlanInputs
<1>5. CASE OpenForAppend
  BY <1>5 DEF OpenForAppend, NewAppend, Refused, TypeOK, Appends, AppendPcs, Files
<1>6. CASE SkipExisting
  <2>1. Head(append.plan) \in EntryNames /\ Tail(append.plan) \in Seq(EntryNames)
    BY <1>6 DEF SkipExisting, TypeOK, Appends, AppendPcs, Files
  <2>2. Append(append.skipped, Head(append.plan)) \in Seq(EntryNames)
    BY <2>1, OneMore DEF TypeOK, Appends, Files
  <2> QED
    BY <1>6, <2>1, <2>2 DEF SkipExisting, TypeOK, Appends, AppendPcs, Files
<1>7. CASE WriteOne
  <2>1. Head(append.plan) \in EntryNames /\ Tail(append.plan) \in Seq(EntryNames)
    BY <1>7 DEF WriteOne, TypeOK, Appends, AppendPcs, Files
  <2>2. Append(append.added, Head(append.plan)) \in Seq(EntryNames)
    BY <2>1, OneMore DEF TypeOK, Appends, Files
  <2> QED
    BY <1>7, <2>1, <2>2 DEF WriteOne, Tears, Changed, Healths, TypeOK, Appends, AppendPcs, Files
<1>8. CASE WriteFails
  <2>1. PICK begun \in {<<>>, <<Head(append.plan)>>}, health \in {append.health, "torn"} :
          file' = [file EXCEPT !.names = append.base \o append.added \o begun, !.health = health]
    BY <1>8 DEF WriteFails
  <2>2. begun \in Seq(EntryNames)
    <3>1. Head(append.plan) \in EntryNames
      BY <1>8 DEF WriteFails, TypeOK, Appends
    <3>2. \A x \in EntryNames : <<x>> \in Seq(EntryNames)
      OBVIOUS
    <3>3. <<>> \in Seq(EntryNames)
      OBVIOUS
    <3> QED
      BY <2>1, <3>1, <3>2, <3>3
  <2>3. append.base \o append.added \o begun \in Seq(EntryNames) /\ health \in Healths
    BY <2>2 DEF TypeOK, Appends, Healths
  <2>4. file' \in Files
    BY <2>1, <2>3 DEF TypeOK, Appends, Files
  <2>5. spoiled' \in BOOLEAN
    BY <1>8 DEF WriteFails, Spoils
  <2> QED
    BY <1>8, <2>4, <2>5 DEF WriteFails, Changed, TypeOK, Appends, AppendPcs, Files
<1>9. CASE Finish
  <2>1. append.base \o append.added \in Seq(EntryNames)
    BY DEF TypeOK, Appends, Files
  <2> QED
    BY <1>9, <2>1 DEF Finish, Changed, TypeOK, Appends, AppendPcs, Files
<1> QED
  BY <1>1, <1>2, <1>3, <1>4, <1>5, <1>6, <1>7, <1>8, <1>9

---------------------------------------------------------------------------

\* Where open_fallback_backend goes.
Fallback(format) == IF format \in {ZipFile, Zipx} THEN Lenient ELSE Unknown

\* An opener that has the path read leniently has a reason to, and one whose file did
\* not change knows its format, and was given its backend or, for a path in the cache,
\* the fallback.
RoutedOne(o) ==
  /\ opener[o].pc = "remember" => spoiled
  /\ opener[o].pc = "fallback" => cached
  /\ o \in steady => opener[o].format = Detect(file.form, name)
  /\ o \in steady /\ opener[o].pc = "returned" =>
       LET format == Detect(file.form, name) IN
       \/ opener[o].reads = Reads(Backend(format, name), file)
       \/ cached /\ opener[o].reads = Reads(Fallback(format), file)

\* So has the cache, and what is at the path while the appender writes is a ZIP.
Cause ==
  /\ Spoils(file) => spoiled
  /\ cached => spoiled
  /\ append.pc = "writing" => file.form = ZipFile /\ (append.health \in Broken => spoiled)

Routed == Cause /\ \A o \in Openers : RoutedOne(o)

\* What the appender found, kept, added and skipped.
Appended ==
  /\ IsInjective(file.names)
  /\ append.pc \in {"idle", "list", "plan", "open"} => append.added = <<>> /\ append.skipped = <<>>
  /\ "append" \in steady /\ append.pc \in {"plan", "open"} => append.existing = ToSet(file.names)
  /\ append.pc \in {"writing", "done"} =>
       /\ IsInjective(append.base \o append.added)
       /\ ToSet(append.added) \cap append.existing = {}
       /\ ToSet(append.skipped) \subseteq append.existing
       /\ "append" \in steady => append.existing = ToSet(append.base)
  /\ append.pc = "done" /\ "append" \in steady => file.names = append.base \o append.added

OpenInvariant == TypeOK /\ Routed /\ Appended

\* An opener's step does not concern the others.
LEMMA OthersRouted ==
  ASSUME NEW o \in Openers, \A p \in Openers : RoutedOne(p),
         \A p \in Openers \ {o} : opener'[p] = opener[p] /\ (p \in steady' => p \in steady),
         file' = file, name' = name, cached => cached', spoiled => spoiled',
         RoutedOne(o)'
  PROVE  \A p \in Openers : RoutedOne(p)'
<1> SUFFICES ASSUME NEW p \in Openers, p # o PROVE RoutedOne(p)'
  OBVIOUS
<1> QED
  BY DEF RoutedOne

\* The openers.
LEMMA OpenerRouted ==
  ASSUME TypeOK, Routed, NEW o \in Openers,
         Sniff(o) \/ LookUp(o) \/ OpenStrict(o) \/ DeadlineExceeded(o) \/ Remember(o)
         \/ OpenFallback(o) \/ Close(o)
  PROVE  Routed'
<1>0. \A p \in Openers \ {o} : opener'[p] = opener[p] /\ (p \in steady' => p \in steady)
  BY DEF TypeOK, Sniff, LookUp, OpenStrict, DeadlineExceeded, Remember, OpenFallback, Close,
         Goes, Returns
<1>1. file' = file /\ name' = name /\ append' = append
  BY DEF Sniff, LookUp, OpenStrict, DeadlineExceeded, Remember, OpenFallback, Close
<1>2. CASE Sniff(o)
  <2>1. opener'[o].pc = "sniffed" /\ opener'[o].format = Detect(file.form, name)
        /\ cached' = cached /\ spoiled' = spoiled
    BY <1>2 DEF Sniff, TypeOK
  <2>2. RoutedOne(o)'
    BY <1>1, <2>1 DEF RoutedOne
  <2> QED
    BY <1>0, <1>1, <2>1, <2>2, OthersRouted DEF Routed, Cause
<1>3. CASE LookUp(o)
  <2>1. opener'[o] = [opener[o] EXCEPT !.pc = IF cached THEN "fallback" ELSE "strict"]
        /\ cached' = cached /\ spoiled' = spoiled /\ steady' = steady
    BY <1>3 DEF LookUp, Goes, TypeOK
  <2>2. opener'[o].format = opener[o].format /\ opener'[o].pc \in {"fallback", "strict"}
        /\ (opener'[o].pc = "fallback" => cached)
    BY <2>1 DEF TypeOK, Calls
  <2>3. RoutedOne(o)'
    BY <1>1, <2>1, <2>2 DEF RoutedOne, Routed
  <2> QED
    BY <1>0, <1>1, <2>1, <2>3, OthersRouted DEF Routed, Cause
<1>4. CASE OpenStrict(o)
  <2>1. cached' = cached /\ spoiled' = spoiled /\ steady' = steady
    BY <1>4 DEF OpenStrict
  <2>2. CASE IsRecoverable(file) /\ Goes(o, "remember")
    <3>1. opener'[o].format = opener[o].format /\ opener'[o].pc = "remember"
      BY <2>2 DEF TypeOK, Calls, Goes
    <3>2. Spoils(file)
      BY <2>2 DEF IsRecoverable, Strict, Spoils
    <3>3. RoutedOne(o)'
      BY <1>1, <2>1, <3>1, <3>2 DEF RoutedOne, Routed, Cause
    <3> QED
      BY <1>0, <1>1, <2>1, <3>3, OthersRouted DEF Routed, Cause
  <2>3. CASE Returns(o, Backend(opener[o].format, name))
    <3>1. opener'[o].format = opener[o].format /\ opener'[o].pc = "returned"
          /\ opener'[o].reads = Reads(Backend(opener[o].format, name), file)
      BY <2>3 DEF TypeOK, Calls, Returns
    <3>3. RoutedOne(o)'
      BY <1>1, <2>1, <3>1 DEF RoutedOne, Routed
    <3> QED
      BY <1>0, <1>1, <2>1, <3>3, OthersRouted DEF Routed, Cause
  <2> QED
    BY <1>4, <2>2, <2>3 DEF OpenStrict
<1>5. CASE DeadlineExceeded(o)
  <2>1. opener'[o].format = opener[o].format /\ opener'[o].pc = "remember"
        /\ cached' = cached /\ spoiled' = TRUE /\ steady' = steady
    BY <1>5 DEF DeadlineExceeded, Goes, TypeOK, Calls
  <2>2. RoutedOne(o)'
    BY <1>1, <2>1 DEF RoutedOne, Routed
  <2> QED
    BY <1>0, <1>1, <2>1, <2>2, OthersRouted DEF Routed, Cause
<1>6. CASE Remember(o)
  <2>1. opener'[o].format = opener[o].format /\ opener'[o].pc = "fallback"
        /\ cached' = TRUE /\ spoiled' = spoiled /\ steady' = steady /\ opener[o].pc = "remember"
    BY <1>6 DEF Remember, Goes, TypeOK, Calls
  <2>2. RoutedOne(o)'
    BY <1>1, <2>1 DEF RoutedOne, Routed
  <2> QED
    BY <1>0, <1>1, <2>1, <2>2, OthersRouted DEF Routed, Cause, RoutedOne
<1>7. CASE OpenFallback(o)
  <2>1. Returns(o, Fallback(opener[o].format))
    BY <1>7 DEF OpenFallback, Lenient, Fallback
  <2>2. /\ opener'[o].format = opener[o].format /\ opener'[o].pc = "returned"
        /\ opener'[o].reads = Reads(Fallback(opener[o].format), file)
    BY <2>1 DEF Returns, TypeOK, Calls
  <2>3. cached' = cached /\ spoiled' = spoiled /\ steady' = steady /\ opener[o].pc = "fallback"
    BY <1>7 DEF OpenFallback
  <2>4. cached /\ RoutedOne(o)
    BY <2>3 DEF RoutedOne, Routed
  <2>5. o \in steady => opener[o].format = Detect(file.form, name)
    BY <2>4 DEF RoutedOne
  <2>6. o \in steady => opener'[o].reads = Reads(Fallback(Detect(file.form, name)), file)
    BY <2>2, <2>5
  <2>7. RoutedOne(o)'
    BY <1>1, <2>2, <2>3, <2>4, <2>5, <2>6 DEF RoutedOne
  <2> QED
    BY <1>0, <1>1, <2>3, <2>7, OthersRouted DEF Routed, Cause
<1>8. CASE Close(o)
  <2>1. opener'[o].pc = "idle" /\ cached' = cached /\ spoiled' = spoiled /\ o \notin steady'
    BY <1>8 DEF Close, Goes, TypeOK, Calls
  <2>2. RoutedOne(o)'
    BY <2>1 DEF RoutedOne
  <2> QED
    BY <1>0, <1>1, <2>1, <2>2, OthersRouted DEF Routed, Cause
<1> QED
  BY <1>2, <1>3, <1>4, <1>5, <1>6, <1>7, <1>8

\* When the file changes, no opener's is unchanged.
LEMMA ChangedRouted ==
  ASSUME \A p \in Openers : RoutedOne(p), opener' = opener, cached' = cached,
         spoiled => spoiled', \A p \in Openers : p \notin steady'
  PROVE  \A p \in Openers : RoutedOne(p)'
BY DEF RoutedOne

\* When it does not, nothing changes for them.
LEMMA SameRouted ==
  ASSUME \A p \in Openers : RoutedOne(p), opener' = opener, cached' = cached, name' = name,
         file' = file, spoiled' = spoiled, \A p \in Openers : p \in steady' => p \in steady
  PROVE  \A p \in Openers : RoutedOne(p)'
BY DEF RoutedOne

\* The appender, and programs that replace the file.
LEMMA AppendRouted ==
  ASSUME TypeOK, Routed,
         Replace \/ Confirm \/ ExistingEntryNames \/ PlanInputs \/ OpenForAppend
         \/ SkipExisting \/ WriteOne \/ WriteFails \/ Finish
  PROVE  Routed'
<1>0. "append" \notin Openers
  BY OpenAssumption
<1>1. CASE Replace
  <2>1. Cause'
    BY <1>1 DEF Replace, Routed, Cause
  <2> QED
    BY <1>1, <2>1, ChangedRouted DEF Replace, Routed
<1>2. CASE Confirm
  <2>1. Cause'
    BY <1>2 DEF Confirm, Refused, Routed, Cause, TypeOK, Appends
  <2> QED
    BY <1>0, <1>2, <2>1, SameRouted DEF Confirm, Routed
<1>3. CASE ExistingEntryNames
  <2>1. Cause'
    BY <1>3 DEF ExistingEntryNames, Refused, Routed, Cause, TypeOK, Appends
  <2> QED
    BY <1>3, <2>1, SameRouted DEF ExistingEntryNames, Routed
<1>4. CASE PlanInputs
  <2>0. append'.pc \in {"refused", "open"}
    BY <1>4 DEF PlanInputs, Refused, TypeOK, Appends
  <2>1. Cause'
    BY <1>4, <2>0 DEF PlanInputs, Routed, Cause
  <2> QED
    BY <1>4, <2>1, SameRouted DEF PlanInputs, Routed
<1>5. CASE OpenForAppend
  <2>0. append'.pc = "writing" => file.form = ZipFile /\ append'.health = file.health
    BY <1>5 DEF OpenForAppend, Refused, TypeOK, Appends
  <2>1. Cause'
    BY <1>5, <2>0 DEF OpenForAppend, Routed, Cause, Spoils
  <2> QED
    BY <1>5, <2>1, SameRouted DEF OpenForAppend, Routed
<1>6. CASE SkipExisting
  <2>0. append'.pc = append.pc /\ append'.health = append.health
    BY <1>6 DEF SkipExisting, TypeOK, Appends
  <2>1. Cause'
    BY <1>6, <2>0 DEF SkipExisting, Routed, Cause
  <2> QED
    BY <1>6, <2>1, SameRouted DEF SkipExisting, Routed
<1>7. CASE WriteOne
  <2>0. append'.pc = append.pc /\ append'.health = append.health /\ file'.form = file.form
        /\ spoiled' = TRUE
    BY <1>7 DEF WriteOne, Tears, TypeOK, Appends, Files
  <2>1. Cause'
    BY <1>7, <2>0 DEF WriteOne, Routed, Cause
  <2> QED
    BY <1>0, <1>7, <2>0, <2>1, ChangedRouted DEF WriteOne, Changed, Routed
<1>8. CASE WriteFails
  <2>0. append'.pc = "failed" /\ spoiled' = (spoiled \/ Spoils(file'))
    BY <1>8 DEF WriteFails, TypeOK, Appends
  <2>1. Cause'
    BY <1>8, <2>0 DEF WriteFails, Routed, Cause, Spoils
  <2> QED
    BY <1>0, <1>8, <2>0, <2>1, ChangedRouted DEF WriteFails, Changed, Routed
<1>9. CASE Finish
  <2>0. append'.pc = "done" /\ file'.form = file.form /\ file'.health = append.health
    BY <1>9 DEF Finish, TypeOK, Appends, Files
  <2>1. Cause'
    BY <1>9, <2>0 DEF Finish, Routed, Cause, Spoils
  <2> QED
    BY <1>0, <1>9, <2>1, ChangedRouted DEF Finish, Changed, Routed
<1> QED
  BY <1>1, <1>2, <1>3, <1>4, <1>5, <1>6, <1>7, <1>8, <1>9

\* Where the appender and the file stay as they are, so does what is said of them.
LEMMA SameAppended ==
  ASSUME Appended, file' = file, append' = append, "append" \in steady' => "append" \in steady
  PROVE  Appended'
BY DEF Appended

\* An opener's step is one of those.
LEMMA OpenerAppended ==
  ASSUME Appended, NEW o \in Openers,
         Sniff(o) \/ LookUp(o) \/ OpenStrict(o) \/ DeadlineExceeded(o) \/ Remember(o)
         \/ OpenFallback(o) \/ Close(o)
  PROVE  Appended'
<1>0. "append" # o
  BY OpenAssumption
<1>1. file' = file /\ append' = append /\ ("append" \in steady' => "append" \in steady)
  BY <1>0 DEF Sniff, LookUp, OpenStrict, DeadlineExceeded, Remember, OpenFallback, Close
<1> QED
  BY <1>1, SameAppended

\* What the appender does.
LEMMA AppendAppended ==
  ASSUME TypeOK, Appended,
         Replace \/ Confirm \/ ExistingEntryNames \/ PlanInputs \/ OpenForAppend
         \/ SkipExisting \/ WriteOne \/ WriteFails \/ Finish
  PROVE  Appended'
<1>1. CASE Replace
  <2>1. IsInjective(file'.names)
    BY <1>1, OpenAssumption DEF Replace
  <2>2. append' = append /\ "append" \notin steady'
    BY <1>1 DEF Replace
  <2> QED
    BY <2>1, <2>2 DEF Appended
<1>2. CASE Confirm
  <2>1. append'.pc \in {"list", "refused"} /\ append.pc = "idle" /\ append'.added = append.added
        /\ append'.skipped = append.skipped /\ file' = file
    BY <1>2 DEF Confirm, Refused, TypeOK, Appends
  <2> QED
    BY <2>1 DEF Appended
<1>3. CASE ExistingEntryNames
  <2>1. append'.pc = "plan" => append'.existing = ToSet(file.names)
    BY <1>3 DEF ExistingEntryNames, Refused, TypeOK, Appends
  <2>2. append'.pc \in {"plan", "refused"} /\ append.pc = "list" /\ append'.added = append.added
        /\ append'.skipped = append.skipped /\ file' = file
    BY <1>3 DEF ExistingEntryNames, Refused, TypeOK, Appends
  <2> QED
    BY <2>1, <2>2 DEF Appended
<1>4. CASE PlanInputs
  <2>1. append'.pc \in {"open", "refused"} /\ append'.added = append.added
        /\ append'.skipped = append.skipped /\ append'.existing = append.existing
    BY <1>4 DEF PlanInputs, Refused, TypeOK, Appends
  <2>2. append.pc = "plan" /\ file' = file /\ steady' = steady
    BY <1>4 DEF PlanInputs
  <2> QED
    BY <2>1, <2>2 DEF Appended
<1>5. CASE OpenForAppend
  <2>1. append.pc = "open" /\ file' = file /\ steady' = steady
    BY <1>5 DEF OpenForAppend
  <2>2. CASE Refused
    <3>1. append'.pc = "refused"
      BY <2>2 DEF Refused, TypeOK, Appends
    <3> QED
      BY <2>1, <3>1 DEF Appended
  <2>3. CASE append' = [append EXCEPT !.pc = "writing", !.base = NewAppend(file),
                                      !.health = file.health]
    <3>1. append'.pc = "writing" /\ append'.base = file.names /\ append'.added = <<>>
          /\ append'.skipped = <<>> /\ append'.existing = append.existing
      BY <2>1, <2>3 DEF NewAppend, TypeOK, Appends, Appended
    <3>2. file.names \o <<>> = file.names /\ ToSet(<<>>) = {}
      BY NoMore DEF TypeOK, Files
    <3> QED
      BY <2>1, <3>1, <3>2 DEF Appended
  <2> QED
    BY <1>5, <2>2, <2>3 DEF OpenForAppend
<1>6. CASE SkipExisting
  <2> DEFINE x == Head(append.plan)
  <2>1. append.pc = "writing" /\ append'.pc = "writing" /\ append'.base = append.base
        /\ append'.added = append.added /\ append'.existing = append.existing
        /\ append'.skipped = Append(append.skipped, x) /\ file' = file /\ steady' = steady
        /\ x \in append.existing
    BY <1>6 DEF SkipExisting, TypeOK, Appends
  <2>2. x \in EntryNames /\ append.skipped \in Seq(EntryNames)
    BY <1>6 DEF SkipExisting, TypeOK, Appends
  <2>3. ToSet(append'.skipped) = ToSet(append.skipped) \cup {x}
    BY <2>1, <2>2, OneMore
  <2> QED
    BY <2>1, <2>3 DEF Appended
<1>7. CASE WriteOne
  <2> DEFINE x == Head(append.plan)
  <2>1. append.pc = "writing" /\ append'.pc = "writing" /\ append'.base = append.base
        /\ append'.added = Append(append.added, x) /\ append'.existing = append.existing
        /\ append'.skipped = append.skipped /\ file'.names = file.names
        /\ ("append" \in steady' => "append" \in steady)
    BY <1>7 DEF WriteOne, Tears, Changed, TypeOK, Appends, Files
  <2>2. x \in EntryNames /\ append.added \in Seq(EntryNames) /\ append.base \in Seq(EntryNames)
    BY <1>7 DEF WriteOne, TypeOK, Appends
  <2>3. x \notin append.existing /\ x \notin ToSet(append.base) \cup ToSet(append.added)
    BY <1>7 DEF WriteOne, Twice
  <2>4. IsInjective(append.base \o append.added)
    BY <2>1 DEF Appended
  <2> HIDE DEF x
  <2>5. IsInjective(append.base \o append'.added)
    BY <2>1, <2>2, <2>3, <2>4, OnceMore
  <2>6. ToSet(append'.added) = ToSet(append.added) \cup {x}
    BY <2>1, <2>2, OneMore
  <2> QED
    BY <2>1, <2>3, <2>5, <2>6 DEF Appended
<1>8. CASE WriteFails
  <2> DEFINE x == Head(append.plan)
  <2>0. append.pc = "writing" /\ append'.pc = "failed"
    BY <1>8 DEF WriteFails, TypeOK, Appends
  <2>1. PICK begun \in {<<>>, <<x>>}, health \in {append.health, "torn"} :
          /\ begun # <<>> => ~Twice(x)
          /\ file' = [file EXCEPT !.names = append.base \o append.added \o begun, !.health = health]
    BY <1>8 DEF WriteFails
  <2>2. file'.names = append.base \o append.added \o begun
    BY <2>1 DEF TypeOK, Files
  <2>3. append.added \in Seq(EntryNames) /\ append.base \in Seq(EntryNames) /\ x \in EntryNames
    BY <1>8 DEF WriteFails, TypeOK, Appends
  <2>4. IsInjective(append.base \o append.added)
    BY <2>0 DEF Appended
  <2>5. CASE begun = <<>>
    <3>1. append.base \o append.added \in Seq(EntryNames)
      BY <2>3
    <3>2. file'.names = append.base \o append.added
      BY <2>2, <2>5, <3>1, NoMore
    <3> QED
      BY <2>0, <2>4, <3>2 DEF Appended
  <2>6. CASE begun = <<x>>
    <3>1. x \notin ToSet(append.base) \cup ToSet(append.added)
      BY <2>1, <2>6 DEF Twice
    <3> HIDE DEF x
    <3>2. /\ IsInjective(append.base \o Append(append.added, x))
          /\ append.base \o append.added \o <<x>> = append.base \o Append(append.added, x)
      BY <2>3, <2>4, <3>1, OnceMore
    <3>3. IsInjective(file'.names)
      BY <2>2, <2>6, <3>2
    <3> QED
      BY <2>0, <3>3 DEF Appended
  <2> QED
    BY <2>1, <2>5, <2>6
<1>9. CASE Finish
  <2>1. append.pc = "writing" /\ append'.pc = "done" /\ append'.base = append.base
        /\ append'.added = append.added /\ append'.existing = append.existing
        /\ append'.skipped = append.skipped
    BY <1>9 DEF Finish, TypeOK, Appends
  <2>2. file'.names = append.base \o append.added /\ ("append" \in steady' => "append" \in steady)
    BY <1>9 DEF Finish, Changed, TypeOK, Files
  <2> QED
    BY <2>1, <2>2 DEF Appended
<1> QED
  BY <1>1, <1>2, <1>3, <1>4, <1>5, <1>6, <1>7, <1>8, <1>9

---------------------------------------------------------------------------

\* The invariant holds in every state of every behaviour.
THEOREM OpenInvariantHolds == Spec => []OpenInvariant
<1>1. Init => OpenInvariant
  <2> SUFFICES ASSUME Init PROVE OpenInvariant
    OBVIOUS
  <2>1. Routed
    <3>1. \A o \in Openers : opener[o].pc = "idle"
      BY DEF Init
    <3> QED
      BY <3>1 DEF Init, Routed, Cause, RoutedOne
  <2>2. Appended
    <3>1. IsInjective(file.names)
      BY OpenAssumption DEF Init
    <3> QED
      BY <3>1 DEF Init, Appended
  <2> QED
    BY <2>1, <2>2, TypeInit DEF OpenInvariant
<1>2. OpenInvariant /\ [Next]_vars => OpenInvariant'
  <2> SUFFICES ASSUME OpenInvariant, [Next]_vars PROVE OpenInvariant'
    OBVIOUS
  <2>0. TypeOK /\ Routed /\ Appended
    BY DEF OpenInvariant
  <2>1. ASSUME NEW o \in Openers,
               Sniff(o) \/ LookUp(o) \/ OpenStrict(o) \/ DeadlineExceeded(o) \/ Remember(o)
               \/ OpenFallback(o) \/ Close(o)
        PROVE  OpenInvariant'
    BY <2>0, <2>1, OpenerTypes, OpenerRouted, OpenerAppended DEF OpenInvariant
  <2>2. CASE Replace \/ Confirm \/ ExistingEntryNames \/ PlanInputs \/ OpenForAppend
             \/ SkipExisting \/ WriteOne \/ WriteFails \/ Finish
    BY <2>0, <2>2, AppendTypes, AppendRouted, AppendAppended DEF OpenInvariant
  <2>3. CASE UNCHANGED vars
    <3>1. TypeOK'
      BY <2>0, <2>3 DEF vars, TypeOK
    <3>2. Routed'
      BY <2>0, <2>3 DEF vars, Routed, Cause, RoutedOne
    <3>3. Appended'
      BY <2>0, <2>3 DEF vars, Appended
    <3> QED
      BY <3>1, <3>2, <3>3 DEF OpenInvariant
  <2> QED
    BY <2>1, <2>2, <2>3 DEF Next
<1> QED
  BY <1>1, <1>2, PTL DEF Spec

\* The types are right.
THEOREM TypeCorrect == Spec => []TypeOK
<1>1. OpenInvariant => TypeOK
  BY DEF OpenInvariant
<1> QED
  BY <1>1, OpenInvariantHolds, PTL

\* A healthy file with a usual name is read by the backend for what it is: a sound
\* ZIP at any path, anything else at a path that is not in the fallback cache.
THEOREM HealthyFilesAreRead == Spec => []HealthyIsRead
<1>1. OpenInvariant => HealthyIsRead
  <2> SUFFICES ASSUME OpenInvariant, NEW o \in Openers, opener[o].pc = "returned", o \in steady,
                      Usual(file.form, name), file.health \in {"sound", "encrypted"},
                      Stuck => file.form = ZipFile /\ file.health = "sound"
               PROVE  opener[o].reads
    BY DEF HealthyIsRead, Healthy
  <2> DEFINE format == Detect(file.form, name)
             b == Backend(format, name)
  <2>1. \/ opener[o].reads = Reads(b, file)
        \/ cached /\ opener[o].reads = Reads(Fallback(format), file)
    BY DEF OpenInvariant, Routed, RoutedOne
  <2>2. b = IF file.form = Tar("v7") THEN Tar("") ELSE file.form
    BY UsualIsItself DEF Itself
  <2> HIDE DEF b
  <2>3. Reads(b, file)
    <3>1. \A k : ZipFile # Tar(k)
      BY Apart
    <3>2. file.form # <<"lenient", "">> /\ Tar("") # <<"lenient", "">>
      <4>1. file.form \in Forms
        BY DEF OpenInvariant, TypeOK, Files
      <4>2. \A k : /\ Tar(k)[1] # "lenient" /\ Single(k)[1] # "lenient"
                   /\ Plain(k)[1] = "lenient" => k = "lenient"
        BY Parts
      <4>3. \A f \in Forms : f[1] # "lenient"
        BY <4>2 DEF Forms
      <4>4. <<"lenient", "">>[1] = "lenient"
        OBVIOUS
      <4>5. file.form[1] # "lenient" /\ Tar("")[1] # "lenient"
        BY <4>1, <4>2, <4>3
      <4> QED
        BY <4>4, <4>5, Zenon
    <3>3. CASE file.form = ZipFile
      <4>1. b = ZipFile /\ file.health \notin Broken
        BY <2>2, <3>1, <3>3 DEF Broken
      <4> QED
        BY <3>2, <3>3, <4>1 DEF Reads, Strict
    <3>4. CASE file.form # ZipFile
      <4>1. b # ZipFile /\ b # <<"lenient", "">>
        BY <2>2, <3>1, <3>2, <3>4
      <4> QED
        BY <2>2, <4>1 DEF Reads
    <3> QED
      BY <3>3, <3>4
  <2>4. ASSUME cached PROVE Reads(Fallback(format), file)
    <3>1. file.form = ZipFile /\ file.health = "sound"
      BY <2>4 DEF Stuck, OpenInvariant, Routed, Cause
    <3>2. \A k : ZipFile # Tar(k)
      BY Apart
    <3>3. Backend(format, name) = ZipFile
      BY <2>2, <3>1, <3>2 DEF b
    <3>4. format \in {ZipFile, Zipx}
      BY <3>2, <3>3 DEF Backend
    <3>5. Fallback(format) = Lenient
      BY <3>4 DEF Fallback
    <3> QED
      BY <3>1, <3>5 DEF Reads, Lenient
  <2> QED
    BY <2>1, <2>3, <2>4, Zenon
<1> QED
  BY <1>1, OpenInvariantHolds, PTL

\* A successful append added nothing that was there and skipped nothing that was not,
\* and where nobody else changed the file it lists what was there and what was added.
THEOREM SuccessfulAppendIsListed == Spec => []AppendedIsListed
<1>1. OpenInvariant => AppendedIsListed
  BY DEF OpenInvariant, Appended, AppendedIsListed
<1> QED
  BY <1>1, OpenInvariantHolds, PTL
=============================================================================
