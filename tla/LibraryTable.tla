---------------------------- MODULE LibraryTable ----------------------------
(***************************************************************************)
(* The tables the scripts of cpp-build-system share: the libraries and     *)
(* their archives (src/scripts/libraries.sh), how enabling one enables or  *)
(* disables others (src/scripts/env.sh), and which CMake target needs      *)
(* which (cmake/libraries/).  Libraries that are kept in the repository,   *)
(* or come with the operating system, have no archive and are left out.    *)
(***************************************************************************)
EXTENDS Naturals, Sequences

\* PROJECT_LIBRARIES, in the order of the array.
ProjectLibraries ==
  << "BOOST", "CLI11", "CPP_HTTPLIB", "CURL", "CXXOPTS", "DTL", "FLAC", "FMT",
     "FONTCONFIG", "FREETYPE2", "JSON", "LIBBITCOIN_SYSTEM", "LIBDSM", "LIBEVENT",
     "LIBICONV", "LIBJPEG_TURBO", "LIBPNG", "LIBSODIUM", "LIBTASN", "NANA", "NUSPELL",
     "OGG", "OPENAL", "OPENSSL", "PUGIXML", "ROCKSDB", "SDL", "SECP256K1", "SFML",
     "SPDLOG", "SQLITE", "STDUUID", "TESTING", "TPL", "VORBIS", "WINFSP", "WXWIDGETS" >>

\* PROJECT_CLEANUP: the archives that go with a library that is off ...
Archives(library) ==
  CASE library = "BOOST"             -> {"BOOST", "BOOST2"}
    [] library = "LIBBITCOIN_SYSTEM" -> {"BOOST2", "LIBBITCOIN_SYSTEM"}
    [] OTHER                         -> {library}

\* ... and with one that is on (the _ON entry).
UnusedWhenOn_Boost2(library) ==
  IF library = "LIBBITCOIN_SYSTEM" THEN {"BOOST2"} ELSE {}

UnusedWhenOn(library) == IF library = "LIBBITCOIN_SYSTEM" THEN {"BOOST"} ELSE {}

\* The archives without an entry in PROJECT_DOWNLOADS.
NotDownloaded == {"DTL", "LIBBITCOIN_SYSTEM", "TPL"}

\* The archive a library that is on is built from: Boost has two versions.
ArchiveInUse(library, on) ==
  IF library = "BOOST" /\ "LIBBITCOIN_SYSTEM" \in on THEN "BOOST2" ELSE library

-----------------------------------------------------------------------------

When(any, enabled, disabled) == [any |-> any, enabled |-> enabled, disabled |-> disabled]

\* The dependency rules of env.sh, in its order.
Rules ==
  << When({"SFML"}, {"FLAC", "FONTCONFIG", "FREETYPE2", "OGG", "OPENAL", "VORBIS"}, {}),
     When({"CPP_HTTPLIB"}, {"CURL", "OPENSSL"}, {}),
     When({"CURL"}, {"OPENSSL"}, {}),
     When({"LIBBITCOIN_SYSTEM"}, {"BOOST", "SECP256K1"}, {}),
     When({"FONTCONFIG"}, {"FREETYPE2"}, {}),
     When({"WXWIDGETS"}, {"CURL"}, {}),
     When({"SPDLOG"}, {}, {"FMT"}),
     When({"VORBIS"}, {"OGG"}, {}),
     When({"FLAC"}, {"LIBICONV", "OGG", "VORBIS"}, {}),
     When({"BOOST"}, {"OPENSSL"}, {}),
     When({"FONTCONFIG", "NANA", "SFML", "WXWIDGETS", "SDL"},
          {"LIBJPEG_TURBO", "LIBPNG"}, {}),
     When({"LIBDSM"}, {"LIBICONV", "LIBTASN", "OPENSSL"}, {}) >>

ApplyRule(on, rule) ==
  IF rule.any \cap on = {} THEN on ELSE (on \cup rule.enabled) \ rule.disabled

\* One rule after the other.
Four(on, rules, i) ==
  ApplyRule(ApplyRule(ApplyRule(ApplyRule(on, rules[i]), rules[i + 1]), rules[i + 2]),
            rules[i + 3])

OnePass(on, rules) == Four(Four(Four(on, rules, 1), rules, 5), rules, 9)

\* What env.sh makes of the libraries config.sh sets to ON: one pass.
Resolve_Backwards(configured) == OnePass(configured, [i \in 1 .. 12 |-> Rules[13 - i]])

Resolve(configured) == OnePass(configured, Rules)

\* add_dependencies of each file in cmake/libraries/ that has one (on Linux; icu
\* is always there, and libtasn needs OpenSSL only if that is on).
BoostNeeds            == {"OPENSSL"}
CppHttplibNeeds       == {"CURL", "OPENSSL"}
CurlNeeds             == {"OPENSSL"}
FlacNeeds             == {"LIBICONV", "VORBIS"}
FontconfigNeeds       == {"FREETYPE2", "LIBJPEG_TURBO", "LIBPNG"}
LibbitcoinSystemNeeds == {"BOOST", "SECP256K1"}
LibdsmNeeds           == {"LIBICONV", "LIBTASN", "OPENSSL"}
NanaNeeds             == {"LIBJPEG_TURBO", "LIBPNG"}
SfmlNeeds             == {"FLAC", "FONTCONFIG", "FREETYPE2", "OPENAL"}
VorbisNeeds           == {"OGG"}
WxWidgetsNeeds        == {"CURL"}

\* The targets without which a library's own target cannot be generated.
TargetsNeeded(library) ==
  CASE library = "BOOST"             -> BoostNeeds
    [] library = "CPP_HTTPLIB"       -> CppHttplibNeeds
    [] library = "CURL"              -> CurlNeeds
    [] library = "FLAC"              -> FlacNeeds
    [] library = "FONTCONFIG"        -> FontconfigNeeds
    [] library = "LIBBITCOIN_SYSTEM" -> LibbitcoinSystemNeeds
    [] library = "LIBDSM"            -> LibdsmNeeds
    [] library = "NANA"              -> NanaNeeds
    [] library = "SFML"              -> SfmlNeeds
    [] library = "VORBIS"            -> VorbisNeeds
    [] library = "WXWIDGETS"         -> WxWidgetsNeeds
    [] OTHER                         -> {}
=============================================================================
