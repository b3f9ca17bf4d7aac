--------------------------- MODULE ArchiveFormats ---------------------------
(***************************************************************************)
(* How a file is taken for one format or another (format.rs) and which     *)
(* backend the dispatcher then gives it to (backends/mod.rs).              *)
(*                                                                         *)
(* A format is <<family, codec>>.  A file name is the letters before its   *)
(* last dot and its extension; of those letters only the last ones count:  *)
(* ".tar", the end of another word such as "guitar", or neither.           *)
(***************************************************************************)
Unknown == <<"unknown", "">>
Single(k) == <<"single", k>>
Tar(k) == <<"tar", k>>
ZipFile == <<"zip", "">>
Zipx == <<"zip", "x">>
Plain(f) == <<f, "">>

Codecs == {"gz", "bz2", "xz", "zst", "lz4"}
ShortTar == [gz |-> {"tgz"}, bz2 |-> {"tbz", "tbz2"}, xz |-> {"txz"}, zst |-> {"tzst"},
             lz4 |-> {}]
ZipAliases == {"zip", "jar", "war", "ear", "ipa", "apk", "aab", "appx", "msix", "xpi", "crx"}

Stems == {"plain", ".tar", "guitar"}
Extensions == UNION {ShortTar[k] : k \in Codecs} \cup Codecs \cup ZipAliases
              \cup {"zipx", "7z", "rar", "tar", "lzma", "tlz", "iso", "img", "cab", "msi",
                    "deb", "doc", "a", ""}

(***************************************************************************)
(* What the first 512 bytes show.  Plain LZMA, an ISO image whose magic is *)
(* at 0x8001, an old tar without "ustar" and a text show nothing; a Word   *)
(* document shows the signature of an MSI, a static library that of a deb. *)
(***************************************************************************)
Forms ==
  {Single(k) : k \in Codecs \cup {"lzma"}} \cup {Tar(k) : k \in Codecs \cup {"", "lzma", "v7"}}
  \cup {Plain(f) : f \in {"zip", "7z", "rar", "cab", "msi", "office", "deb", "library", "iso",
                          "text"}}

Signature(form) ==
  CASE form[2] \in Codecs -> form[2]
    [] form[1] \in {"zip", "7z", "rar", "cab"} -> form[1]
    [] form = Tar("") -> "ustar"
    [] form[1] \in {"msi", "office"} -> "ole2"
    [] form[1] \in {"deb", "library"} -> "ar"
    [] OTHER -> "none"

\* detect_bytes: xz and bzip2 tentatively a tarball, the others one stream.
DetectBytes(signature) ==
  CASE signature \in {"gz", "zst", "lz4"} -> Single(signature)
    [] signature \in {"xz", "bz2"} -> Tar(signature)
    [] signature \in {"zip", "7z", "rar", "cab"} -> Plain(signature)
    [] signature = "ustar" -> Tar("")
    [] signature = "ole2" -> Plain("msi")
    [] signature = "ar" -> Plain("deb")

\* double_extension: the name only has to end with the letters "tar.gz".
DoubleExtension(n, k) == n.stem \in {".tar", "guitar"} /\ n.ext = k

NamesTarball(n, k) == n.ext \in ShortTar[k] \/ DoubleExtension(n, k)

\* Mutant of UpgradeWithExtension: the signature alone decides about bzip2 and xz.
UpgradeBySignature(t, n) ==
  IF t[2] \in Codecs /\ NamesTarball(n, t[2]) THEN Tar(t[2]) ELSE t

\* upgrade_with_extension.
UpgradeWithExtension(t, n) ==
  IF t = ZipFile THEN IF n.ext = "zipx" THEN Zipx ELSE ZipFile
  ELSE IF t[2] \in Codecs
  THEN IF NamesTarball(n, t[2]) THEN Tar(t[2])
       ELSE IF t[1] = "single" \/ n.ext = t[2] THEN Single(t[2]) ELSE t
  ELSE IF t \in {Plain("msi"), Plain("deb")} /\ n.ext # t[1]
  THEN Unknown
  ELSE t

\* extension_hint, for what shows no signature.
ExtensionHint(n) ==
  IF n.ext \in ZipAliases THEN ZipFile
  ELSE IF n.ext = "zipx" THEN Zipx
  ELSE IF n.ext = "tar" THEN Tar("")
  ELSE IF n.ext = "tlz" THEN Tar("xz")
  ELSE IF n.ext \in {"7z", "rar", "cab", "msi", "deb", "iso"} THEN Plain(n.ext)
  ELSE IF n.ext = "img" THEN Plain("iso")
  ELSE IF n.ext = "lzma" THEN Single("lzma")
  ELSE IF \E k \in Codecs : n.ext = k \/ n.ext \in ShortTar[k]
  THEN LET k == CHOOSE k \in Codecs : n.ext = k \/ n.ext \in ShortTar[k] IN
       IF NamesTarball(n, k) THEN Tar(k) ELSE Single(k)
  ELSE Unknown

\* detect: the signature first, the name where there is none.
Detect(form, n) ==
  IF Signature(form) = "none" THEN ExtensionHint(n)
  ELSE UpgradeWithExtension(DetectBytes(Signature(form)), n)

\* open_backend: ZIPX is read as ZIP, and a .tlz as LZMA1 in a tarball.
Backend(format, n) ==
  IF format = Zipx THEN ZipFile
  ELSE IF format = Tar("xz") /\ n.ext = "tlz" THEN Tar("lzma")
  ELSE format

\* What a file is usually called.  A word that ends in "tar" is no convention.
Usual(form, n) ==
  \/ form = ZipFile /\ n.stem # "guitar" /\ n.ext \in ZipAliases \cup {"zipx", ""}
  \/ \E k \in Codecs : /\ form = Tar(k)
                       /\ \/ n.stem = ".tar" /\ n.ext = k
                          \/ n.stem = "plain" /\ n.ext \in ShortTar[k]
  \/ \E k \in Codecs \cup {"lzma"} : form = Single(k) /\ n.stem = "plain" /\ n.ext = k
  \/ form = Tar("lzma") /\ n.stem = "plain" /\ n.ext = "tlz"
  \/ form \in {Tar(""), Tar("v7")} /\ n.ext = "tar"
  \/ form = Plain("iso") /\ n.ext \in {"iso", "img"}
  \/ \E f \in {"7z", "rar", "cab", "msi", "deb"} : form = Plain(f) /\ n.ext = f
=============================================================================
