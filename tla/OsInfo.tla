------------------------------- MODULE OsInfo -------------------------------
(***************************************************************************)
(* What is found out about the operating system (modules/computer/os.c)    *)
(* and about its security (computer.c: callback_security): which of many   *)
(* files, commands and variables is believed.  h says what there is:       *)
(*   h.files     the files that can be read, with the version in each      *)
(*   h.run       the commands that can be started, with what each prints   *)
(*   h.env       the variables that are set                                *)
(* A name is a sequence of parts, each with a version, 0 for none.         *)
(***************************************************************************)
EXTENDS MoreInfo

Has(f, x)      == x \in DOMAIN f
Value(f, x)    == IF x \in DOMAIN f THEN f[x] ELSE 0
Unknown        == -1
FirstIn(s, none) == IF s = <<>> THEN none ELSE s[1]
-----------------------------------------------------------------------------
(* The distribution                                                        *)
NoDistro == [name |-> <<>>, code |-> 0, id |-> ""]

\* /usr/lib/os-release comes first, but the one in /etc must be there too, and is
\* the one that counts for a distribution that only changes that.
OsRelease(h) ==
  CASE "etc/os-release" \notin DOMAIN h.release        -> <<>>
    [] h.release["etc/os-release"].cachy               -> <<h.release["etc/os-release"]>>
    [] "usr/lib/os-release" \in DOMAIN h.release       -> <<h.release["usr/lib/os-release"]>>
    [] OTHER                                           -> <<h.release["etc/os-release"]>>

AndBase(d, base, version) == [d EXCEPT !.name = Append(@, <<base, version>>)]

\* What it is based on: the first of these that is there, if it is not that itself
\* and not one that only keeps the file.
BasedOnRedHat(d, version) ==
  CASE d.id \in {"altlinux", "openmandriva"} -> d
    [] version >= 19                         -> AndBase(d, "Fedora", version)
    [] OTHER                                 -> AndBase(d, "RHEL", version)
BasedOnRpm(d, files) ==
  CASE d.id # "alpine" /\ Has(files, "alpine-release") -> AndBase(d, "Alpine", files["alpine-release"])
    [] d.id # "fedora" /\ Has(files, "fedora-release") ->
         IF d.id = "altlinux" THEN d ELSE AndBase(d, "Fedora", files["fedora-release"])
    [] d.id \notin {"rhel", "fedora"} /\ Has(files, "redhat-release") ->
         BasedOnRedHat(d, files["redhat-release"])
    [] OTHER -> d
BasedOn(d, id, base, file, files) == IF d.id # id /\ Has(files, file) THEN AndBase(d, base, 0) ELSE d

\* The flavours of Debian and Ubuntu: the first that has its file or package.  With
\* none, what the file with the release said is put before the Debian it is.
FlavourFiles == <<"pclinuxos_version", "DISTRO_SPECS", "winux-driver-manager", "vendefoulwolf.png">>
Flavours == FlavourFiles \o
  <<"parrot", "bodhi", "mxlinux", "raspbian", "armbian", "raspberry-pi", "revyos", "pureos",
    "xubuntu", "kubuntu", "lubuntu", "edubuntu", "ubuntu-server", "ubuntu-mate", "ubuntu-budgie",
    "ubuntu-kylin", "ubuntu-studio", "ubuntu-desktop", "ubuntu-gnome">>
Flavoured(d, flavour, version) == [d EXCEPT !.id = flavour, !.name = <<<<flavour, version>>>> \o @]
apt_flavors_scan(d, h, orig) ==
  LET found == SelectSeq(Flavours, LAMBDA f : f \in DOMAIN h.files \union h.packages)
  IN CASE found # <<>>        -> Flavoured(d, found[1], Value(h.versions, found[1]))
       [] orig.id = "debian"  -> d
       [] orig.id = ""        -> d
       [] OTHER               -> [d EXCEPT !.id = orig.id, !.name = orig.name \o @]

\* Both Debian and what is based on it
Debian(d, h) ==
  IF Has(h.files, "debian_version") \/ d.id = "debian"
  THEN apt_flavors_scan([d EXCEPT !.id = "debian", !.name = <<<<"Debian", Value(h.files, "debian_version")>>>>], h, d)
  ELSE IF d.id = "ubuntu" THEN apt_flavors_scan(d, h, NoDistro) ELSE d

Slackware(d, files) == BasedOn(d, "slackware", "Slackware", "slackware-version", files)
Arch(d, files)      == BasedOn(d, "arch", "Arch Linux", "arch-release", files)
Released(r, h) == Debian(Slackware(Arch(BasedOnRpm(r, h.files), h.files), h.files), h)
parse_os_release(h) ==
  IF OsRelease(h) = <<>> \/ OsRelease(h)[1].name = <<>> THEN NoDistro
  ELSE Released([name |-> OsRelease(h)[1].name, code |-> OsRelease(h)[1].code, id |-> OsRelease(h)[1].id], h)

\* Without it the first of the files of old distributions: its name is what it says,
\* but for some that have only a version there.
OldDistros ==
  <<"arch-release", "fatdog-version", "debian_version", "slackware-version", "mandrake-release",
    "mandriva-release", "fedora-release", "coas", "environment.corel", "gentoo-release",
    "conectiva-release", "versao-conectiva", "turbolinux-release", "yellowdog-release", "sabayon-release",
    "enlisy-release", "SuSE-release", "sun-release", "zenwalk-version", "DISTRO_SPECS",
    "distro-release", "vine-release", "PartedMagic-version", "NIXOS", "redhat-release">>
NameOnly == {"arch-release", "NIXOS"}
OldDistro(file, version) ==
  [NoDistro EXCEPT !.id = file, !.name = <<<<file, IF file \in NameOnly THEN 0 ELSE version>>>>]
FromFiles(file, h) ==
  IF file = "" THEN [NoDistro EXCEPT !.name = <<<<"Unknown", 0>>>>] ELSE OldDistro(file, h.files[file])
detect_distro(h) ==
  IF parse_os_release(h).name # <<>> THEN parse_os_release(h)
  ELSE FromFiles(FirstIn(SelectSeq(OldDistros, LAMBDA f : Has(h.files, f)), ""), h)
-----------------------------------------------------------------------------
(* C library, desktop, language                                            *)

\* Each command in turn, until one prints what tells a library; it may be asked again
\* for another.
Libs == <<<<"ldd", "GLIBC">>, <<"ldd", "GNU libc">>, <<"ldd", "musl libc">>, <<"ldconfig -V", "GLIBC">>,
          <<"ldconfig -V", "GNU libc">>, <<"ldconfig -v", "uClibc">>, <<"diet", "diet version">>>>
get_libc_version(h) ==
  FirstIn(SelectSeq(Libs, LAMBDA l : Has(h.run, l[1]) /\ l[2] \in h.run[l[1]]), <<"", "Unknown">>)

Says(h, command, what) == Has(h.run, command) /\ what \in h.run[command]
detect_kde_version(h) ==
  LET command == IF Value(h.env, "KDE_SESSION_VERSION") = 4 THEN "kwin" ELSE "kcontrol"
  IN IF Says(h, command, "KDE: ") THEN command ELSE Missing
detect_gnome_version(h) == CASE Says(h, "gnome-shell", "GNOME Shell ") -> "gnome-shell"
                             [] Says(h, "gnome-about", "Version: ")    -> "gnome-about"
                             [] OTHER -> Missing
detect_mate_version(h) == IF Says(h, "mate-about", "MATE Desktop Environment ") THEN "mate-about" ELSE Missing

VersionOf(h, desktop) == CASE desktop = "GNOME" -> detect_gnome_version(h)
                           [] desktop = "KDE"   -> detect_kde_version(h)
                           [] desktop = "MATE"  -> detect_mate_version(h)
                           [] OTHER             -> Missing
Or(name, other) == IF name # Missing THEN name ELSE other
detect_xdg_environment(h, var) == IF Has(h.env, var) THEN Or(VersionOf(h, h.env[var]), h.env[var]) ELSE Missing
ByVariable(h, var, version) == IF Has(h.env, var) THEN version ELSE Missing

\* There is always an answer; so what the terminal or an unknown desktop would be
\* called is never reached.
detect_window_manager(h) ==
  CASE h.manager = ""      -> "Not X11"
    [] h.manager = "Xfwm4" -> "XFCE 4"
    [] /\ Has(h.env, "XDG_CURRENT_DESKTOP") /\ Has(h.env, "DESKTOP_SESSION")
       /\ h.env["DESKTOP_SESSION"] # h.env["XDG_CURRENT_DESKTOP"] -> h.env["DESKTOP_SESSION"]
    [] OTHER -> h.manager
detect_desktop_environment(h) ==
  Or(detect_xdg_environment(h, "XDG_CURRENT_DESKTOP"),
  Or(detect_xdg_environment(h, "XDG_SESSION_DESKTOP"),
  Or(ByVariable(h, "KDE_FULL_SESSION", detect_kde_version(h)),
  Or(ByVariable(h, "GNOME_DESKTOP_SESSION_ID", detect_gnome_version(h)), detect_window_manager(h)))))
desktop_with_session_type(h, desktop) ==
  <<desktop, IF Has(h.env, "XDG_SESSION_TYPE") /\ h.env["XDG_SESSION_TYPE"] # "unspecified"
             THEN h.env["XDG_SESSION_TYPE"] ELSE "">>

\* The first of the variables, whatever the locale is made of
computer_get_language(h) ==
  LET set == SelectSeq(<<"LANGUAGE", "LANG", "LC_ALL", "LC_MESSAGES">>, LAMBDA v : Has(h.env, v))
  IN <<h.locale, IF set = <<>> THEN "" ELSE h.env[set[1]]>>
-----------------------------------------------------------------------------
(* Memory, randomness, security                                            *)
computer_get_entropy_avail(bits) == CASE bits > 3000 -> "healthy" [] bits > 200 -> "medium"
                                      [] bits > 1 -> "low" [] OTHER -> "none"

\* Its use is 0 unless all three numbers are there; the compressor is the one in brackets.
get_zram_info(z) ==
  IF z.disksize = Unknown THEN [enabled |-> FALSE, disksize |-> 0, sizes |-> <<0, 0, 0>>, compressor |-> ""]
  ELSE [enabled |-> TRUE, disksize |-> z.disksize,
        sizes |-> IF Len(z.stat) = 3 THEN z.stat ELSE <<0, 0, 0>>,
        compressor |-> CASE z.chosen # Missing     -> z.chosen
                         [] z.algorithms # Missing -> z.algorithms
                         [] OTHER                  -> "Unknown"]
get_zswap_info(z) ==
  IF z.enabled = "" THEN [enabled |-> FALSE, shrinker |-> FALSE, compressor |-> ""]
  ELSE [enabled |-> z.enabled = "Y", shrinker |-> z.shrinker = "Y", compressor |-> Or(z.compressor, "Unknown")]

\* What the page of the operating system lists
Compression(zram, zswap) ==
  (IF zram.enabled THEN <<Said("zram", zram)>> ELSE <<>>) \o
  (IF zswap.enabled THEN <<Said("zswap", zswap)>> ELSE <<>>) \o
  (IF zram.enabled \/ zswap.enabled THEN <<>> ELSE <<Note("no compression")>>)
computer_get_os(h) ==
  <<Said("kernel", h.kernel), Said("libc", get_libc_version(h)), Said("distro", detect_distro(h)),
    Said("language", computer_get_language(h)),
    Said("desktop", desktop_with_session_type(h, detect_desktop_environment(h))),
    Said("entropy", computer_get_entropy_avail(h.bits))>>
  \o Compression(get_zram_info(h.zram), get_zswap_info(h.zswap))

computer_get_aslr(n) == IF n \in 0..2 THEN n ELSE Unknown
computer_get_dmesg_status(h) == <<IF h.readable THEN "allowed" ELSE "forbidden", h.root>>
computer_get_selinux(h) ==
  CASE ~Has(h.run, "selinuxenabled") -> "Not installed"
    [] "0" \in h.run["selinuxenabled"] -> "Enabled"
    [] OTHER                           -> "Disabled"

\* Secure Boot is asked of mokutil, then of bootctl; certificates of mokutil only.
SecureBoot(h) == CASE Has(h.run, "mokutil") -> h.run["mokutil"]
                   [] Has(h.run, "bootctl") -> h.run["bootctl"]
                   [] OTHER                 -> {}
BootIcon(state) == CASE state \intersect {"disabled", "Not", "doesn't"} # {} -> "cross"
                     [] "enabled" \in state -> "check"
                     [] OTHER               -> "exclaim"
Enrolled(h) == IF Has(h.run, "mokutil") THEN h.enrolled ELSE Unknown
LinuxBoot(h, state) ==
  IF state = {} THEN <<>> ELSE <<Said("boot", BootIcon(state)), Said("certificates", Enrolled(h))>>

\* A vulnerability has the icon of the last of these that its text has.
VulnerabilityIcon(text) ==
  CASE text \intersect {"Unknown:", "Vulnerable", "vulnerable"} # {}       -> "cross"
    [] text \intersect {"KVM: Mitigation:", "Mitigation:", "mitigation:"} # {} -> "exclaim"
    [] "Not affected" \in text -> "check"
    [] OTHER                   -> ""
callback_security(h) ==
  <<Said("user", h.root), Said("systype", h.systype)>> \o LinuxBoot(h, SecureBoot(h))
  \o <<Said("entropy", computer_get_entropy_avail(h.bits)), Said("aslr", computer_get_aslr(h.aslr)),
       Said("dmesg", computer_get_dmesg_status(h)), Said("lsm", Or(h.lsm, "Unknown")),
       Said("selinux", computer_get_selinux(h)), Said("landlock", h.landlock)>>
  \o [i \in DOMAIN h.vulnerabilities |-> Said(i, VulnerabilityIcon(h.vulnerabilities[i]))]
=============================================================================
