------------------------------ MODULE MCStartup ------------------------------
(* Instances of Startup for TLC: the machines the program is started on.   *)
EXTENDS Startup, TLC

(* Every flag and every place of a file, with an empty configuration.      *)
V(o, ns, ws) == [option |-> o, numbers |-> ns, field |-> "", words |-> ws]
A(o, v) == [p \in {o} |-> v]
Layouts ==
    {[files |-> fs \cup {<<"work", "custom.yml">>}, dataHere |-> d, database |-> TRUE, config |-> c,
      workdir |-> w, first |-> f, han |-> FALSE, content |-> A("app_key", k), environ |-> <<>>] :
        fs \in SUBSET {<<"here", "artalk.yml">>, <<"data", "artalk.yml">>, <<"etc", "artalk.yml">>,
                       <<"here", "custom.yml">>},
        d \in BOOLEAN, c \in {"", "relative", "absolute"}, w \in BOOLEAN, f \in BOOLEAN,
        k \in {"", "own"}}

(* One file; what the patches read, in the file and in the environment, in *)
(* one order: OrderFree compares it with the other.                        *)
FileContents ==
    {A(o, v) : o \in Scalars, v \in {" ", "word"}}
    \cup {A("locale", l) : l \in {"zh", "zh-cn", "en-us", "EN-us", "ja"}}
    \cup {A("notify", "true") @@ A("notify.noise_mode", n) @@ A("notify.email", e)
          @@ A("notify.email.mail_subject", e) @@ A("admin_notify.noise_mode", "true") :
            n \in {"", "true"}, e \in {"", "true"}}
    \cup {A("email.mail_subject", "s") @@ A("admin_notify.notify_subject", n)
          @@ A("email.mail_subject_to_admin", t) @@ A("moderator.pending_default", d) :
            n \in {"", "n"}, t \in {"", "t"}, d \in {"", "true"}}
    \cup {A("captcha.action_timeout", "60") @@ A("captcha.action_reset", r)
          @@ A("allow_origins", <<"a">>) @@ A("trusted_domains", t) :
            r \in {"", "30"}, t \in {<<>>, <<"b">>}}
Variables ==
    <<V("trusted_domains", <<>>, <<"a", "b">>), V("trusted_domains", <<2>>, <<"c">>),
      V("trusted_domains", <<1>>, <<"d", "e">>), V("trusted_domains", <<0, 1>>, <<"x">>),
      [V("admin_users", <<1>>, <<"bob">>) EXCEPT !.field = "name"],
      [V("admin_users", <<1>>, <<"b@b">>) EXCEPT !.field = "email"],
      V("admin_notify.noise_mode", <<>>, <<"true">>), V("app_key", <<>>, <<"env">>),
      V("app_key", <<>>, <<" ">>), V("captcha.action_limit", <<>>, <<"3">>),
      V("admin_notify.email.mail_subject", <<>>, <<"v">>)>>
Environs == {<<>>} \cup {<<Variables[i]>> : i \in DOMAIN Variables}
            \cup UNION {{<<Variables[i], Variables[j]>> : j \in (i + 1)..Len(Variables)} :
                           i \in DOMAIN Variables}
Settings ==
    {[files |-> {<<"here", "artalk.yml">>}, dataHere |-> TRUE, database |-> TRUE, config |-> "",
      workdir |-> FALSE, first |-> TRUE, han |-> TRUE, content |-> c, environ |-> e] :
        c \in FileContents, e \in Environs}
    \cup {[files |-> {<<"here", "artalk.yml">>}, dataHere |-> TRUE, database |-> b, config |-> "",
           workdir |-> FALSE, first |-> TRUE, han |-> h, content |-> A("ip_region.enabled", "true"),
           environ |-> <<>>] : b \in BOOLEAN, h \in BOOLEAN}
AllMachines == Layouts \cup Settings
MCRandomKeys == <<"k1", "k2", "k3", "k4", "k5">>
=============================================================================
