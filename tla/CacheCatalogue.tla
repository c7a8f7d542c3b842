--------------------------- MODULE CacheCatalogue ---------------------------
(***************************************************************************)
(* What each cached query reads and each command writes and invalidates,   *)
(* one definition for each.  The database is cut into groups of columns    *)
(* that change together:                                                   *)
(*                                                                         *)
(*   skill, category        name, slug and the other texts of the row      *)
(*   skillSet, categorySet  which rows exist                               *)
(*   job, draft, jobSkills  submitted jobs, drafts, and their skills       *)
(*   company, profile       the row with its pictures                      *)
(*   ownerActive            whether the user of a company is ACTIVE        *)
(*   user, userSet          phone and mail of an account, which exist      *)
(*   accountStatus          its status                                     *)
(*   application, applicationSet, favourite                                *)
(*   cv, cvSet              title, default mark and file; which exist      *)
(*   analysis, cvSkills     cv_parsed_data and cv_skills of a CV           *)
(***************************************************************************)
EXTENDS Sequences

AllGroups ==
  {"skill", "skillSet", "category", "categorySet", "job", "draft",
   "jobSkills", "company", "profile", "ownerActive", "user", "userSet",
   "accountStatus", "application", "applicationSet", "favourite", "cv",
   "cvSet", "analysis", "cvSkills"}

\* A query: its version key, the groups it reads before the version, those
\* whose state is a part of the cache key, and those it reads after a miss.
Read(key, early, stamped, late) ==
  [key |-> key, early |-> early, stamped |-> stamped, late |-> late]

\* A command: the groups it writes, in order, and the keys it invalidates
\* when all are written.
Does(writes, bumps) == [writes |-> writes, bumps |-> bumps]

----------------------------------------------------------------------------
(* Version keys invalidated together *)

UserKeys == {"USER_LIST", "USER_DETAIL"}
JobKeys == {"JOB_LIST", "JOB_DETAIL"}
CompanyRowKeys == {"COMPANY_LIST", "COMPANY_DETAIL"}
CompanyKeys == CompanyRowKeys \cup JobKeys \cup UserKeys
ApplicationKeys == {"JOB_APPLICATION_LIST", "JOB_APPLICATION_DETAIL"}
CvKeys == {"CV_LIST", "CV_DETAIL"}
SkillKeys == {"SKILL_LIST", "SKILL_DETAIL"}
CategoryKeys == {"CAREER_CATEGORY_LIST", "CAREER_CATEGORY_DETAIL",
                 "CAREER_CATEGORY_TOP"}
AdminKeys ==
  {"ADMIN_ANALYTICS_OVERVIEW", "ADMIN_ANALYTICS_USER_GROWTH",
   "ADMIN_ANALYTICS_JOB_GROWTH", "ADMIN_ANALYTICS_APPLICATION_GROWTH",
   "ADMIN_ANALYTICS_RECENT_ACTIVITIES"}
JobBoardKeys == JobKeys \cup CompanyRowKeys \cup {"CAREER_CATEGORY_TOP"}

----------------------------------------------------------------------------
(* Queries *)

\* Anonymous, recruiter and admin lists; with a userId nothing is cached.
JobListRows == {"job", "draft", "company", "category", "ownerActive",
                "jobSkills"}
GetJobs == Read("JOB_LIST", {}, {}, JobListRows)

\* The base job is read before the version, the related ones after it.
RelatedJobsRows == {"jobSkills", "company", "category", "skill",
                    "ownerActive"}
GetRelatedJobs == Read("JOB_LIST", {"job"}, {}, RelatedJobsRows)

\* The job is read, and checked to be open, before the version.
GetJobBySlug ==
  Read("JOB_DETAIL", {"job"}, {},
       {"company", "category", "jobSkills", "skill", "ownerActive"})
ManagedJobRows == {"company", "category", "jobSkills", "skill"}
GetRecruiterJobBySlug ==
  Read("JOB_DETAIL", {"job", "draft"}, {}, ManagedJobRows)
GetAdminJobBySlug ==
  Read("JOB_DETAIL", {"job", "draft"}, {}, ManagedJobRows)

GetCompanies ==
  Read("COMPANY_LIST", {}, {}, {"company", "category", "job", "ownerActive"})
GetCompanyBySlug ==
  Read("COMPANY_DETAIL", {}, {}, {"company", "category", "job", "ownerActive"})

GetCVs == Read("CV_LIST", {}, {}, {"cv", "cvSet", "analysis"})
\* updatedAt of the newest analysis is a part of the key.
GetCVById == Read("CV_DETAIL", {"cv"}, {"analysis"}, {})
GetCVAnalysis == Read("CV_DETAIL", {}, {"analysis"}, {"cvSkills", "skill"})
\* So is a hash of the jobs applied to or marked; but the analysis enters
\* by the fingerprint of its text only.
RecommendedJobsRows ==
  {"cvSkills", "category", "job", "jobSkills", "company", "skill",
   "ownerActive"}
GetRecommendedJobs ==
  Read("CV_DETAIL", {"analysis"},
       {"application", "applicationSet", "favourite"}, RecommendedJobsRows)

GetUsers ==
  Read("USER_LIST", {}, {},
       {"user", "userSet", "accountStatus", "profile", "company"})
GetUserById ==
  Read("USER_DETAIL", {}, {}, {"user", "accountStatus", "profile", "company"})
\* The only entry without a version: its key is deleted.
GetMyProfile ==
  Read("account:profile", {}, {},
       {"user", "accountStatus", "profile", "company", "category"})

GetCareerCategories ==
  Read("CAREER_CATEGORY_LIST", {}, {}, {"category", "categorySet"})
GetCareerCategoryBySlug ==
  Read("CAREER_CATEGORY_DETAIL", {}, {}, {"category", "categorySet"})
GetTopCareerCategories ==
  Read("CAREER_CATEGORY_TOP", {}, {},
       {"category", "categorySet", "job", "ownerActive"})

SkillTree == {"skill", "skillSet"}
GetSkills == Read("SKILL_LIST", {}, {}, SkillTree)
GetSkillBySlug == Read("SKILL_DETAIL", {}, {}, {"skill", "skillSet"})

GetMyJobApplications ==
  Read("JOB_APPLICATION_LIST", {}, {},
       {"application", "applicationSet", "cv", "job", "company"})
RecruiterRows ==
  {"application", "applicationSet", "cv", "job", "company", "user",
   "profile"}
GetJobApplicationsByJob ==
  Read("JOB_APPLICATION_LIST", {}, {}, RecruiterRows)
GetRecruiterJobApplications ==
  Read("JOB_APPLICATION_LIST", {}, {}, RecruiterRows)
GetRecruiterInterviews ==
  Read("JOB_APPLICATION_LIST", {}, {}, RecruiterRows)
GetRecruiterNewApplicants ==
  Read("JOB_APPLICATION_LIST", {}, {}, RecruiterRows)
\* The application and its job are read before the version.
GetJobApplicationById ==
  Read("JOB_APPLICATION_DETAIL", {"application", "job"}, {},
       {"cv", "analysis", "user", "company", "profile"})

GetAdminOverview ==
  Read("ADMIN_ANALYTICS_OVERVIEW", {}, {}, {"userSet", "job", "applicationSet"})
GetAdminUserGrowth ==
  Read("ADMIN_ANALYTICS_USER_GROWTH", {}, {}, {"userSet"})
GetAdminJobGrowth ==
  Read("ADMIN_ANALYTICS_JOB_GROWTH", {}, {}, {"job"})
GetAdminApplicationGrowth ==
  Read("ADMIN_ANALYTICS_APPLICATION_GROWTH", {}, {}, {"applicationSet"})
GetAdminRecentActivities ==
  Read("ADMIN_ANALYTICS_RECENT_ACTIVITIES", {}, {},
       {"userSet", "job", "applicationSet"})

AllQueries ==
  [getJobs |-> GetJobs, getRelatedJobs |-> GetRelatedJobs,
   getJobBySlug |-> GetJobBySlug,
   getRecruiterJobBySlug |-> GetRecruiterJobBySlug,
   getAdminJobBySlug |-> GetAdminJobBySlug,
   getCompanies |-> GetCompanies, getCompanyBySlug |-> GetCompanyBySlug,
   getCVs |-> GetCVs, getCVById |-> GetCVById,
   getCVAnalysis |-> GetCVAnalysis,
   getRecommendedJobs |-> GetRecommendedJobs,
   getUsers |-> GetUsers, getUserById |-> GetUserById,
   getMyProfile |-> GetMyProfile,
   getCareerCategories |-> GetCareerCategories,
   getCareerCategoryBySlug |-> GetCareerCategoryBySlug,
   getTopCareerCategories |-> GetTopCareerCategories,
   getSkills |-> GetSkills, getSkillBySlug |-> GetSkillBySlug,
   getMyJobApplications |-> GetMyJobApplications,
   getJobApplicationsByJob |-> GetJobApplicationsByJob,
   getRecruiterJobApplications |-> GetRecruiterJobApplications,
   getRecruiterInterviews |-> GetRecruiterInterviews,
   getRecruiterNewApplicants |-> GetRecruiterNewApplicants,
   getJobApplicationById |-> GetJobApplicationById,
   getAdminOverview |-> GetAdminOverview,
   getAdminUserGrowth |-> GetAdminUserGrowth,
   getAdminJobGrowth |-> GetAdminJobGrowth,
   getAdminApplicationGrowth |-> GetAdminApplicationGrowth,
   getAdminRecentActivities |-> GetAdminRecentActivities]

----------------------------------------------------------------------------
(* Commands *)

CreateSkill == Does(<<"skillSet">>, SkillKeys)
UpdateSkill ==
  Does(<<"skill">>, SkillKeys \cup JobKeys \cup {"CV_DETAIL"})
DeleteSkill == Does(<<"skillSet">>, SkillKeys)
RestoreSkill == Does(<<"skillSet">>, SkillKeys)

CreateCareerCategory == Does(<<"categorySet">>, CategoryKeys)
UpdateCareerCategory ==
  Does(<<"category">>,
       CategoryKeys \cup CompanyRowKeys \cup JobKeys \cup {"account:profile"})
DeleteCareerCategory == Does(<<"categorySet">>, CategoryKeys)
RestoreCareerCategory == Does(<<"categorySet">>, CategoryKeys)

\* A job is created submitted or as a draft.
CreateJobSubmitted ==
  Does(<<"job", "jobSkills">>, JobBoardKeys \cup AdminKeys)
CreateJobDraft == Does(<<"draft", "jobSkills">>, JobBoardKeys)
\* The update may submit a draft, reopen a job or change its texts.
UpdateJob ==
  Does(<<"draft", "job", "jobSkills">>, JobBoardKeys \cup AdminKeys)
ReviewJob == Does(<<"job">>, JobBoardKeys \cup AdminKeys)
ExpireOverdueJobs == Does(<<"job">>, JobBoardKeys \cup AdminKeys)
\* Only drafts are deleted.
DeleteJob == Does(<<"draft">>, JobKeys \cup {"CAREER_CATEGORY_TOP"})

UpdateUserStatus ==
  Does(<<"accountStatus", "ownerActive">>, CompanyKeys \cup {"account:profile"})
Register == Does(<<"userSet">>, {"USER_LIST"} \cup AdminKeys)
\* The status is set first; what follows depends on the registration data
\* that were kept, which may be gone.
VerifyJobSeeker == Does(<<"accountStatus", "profile">>, UserKeys)
VerifyRecruiter ==
  Does(<<"accountStatus", "ownerActive", "company">>, CompanyKeys)
VerifyWithoutData == Does(<<"accountStatus">>, {})

\* account:profile is deleted by a queue worker, after the counters.
ChangePassword == Does(<<>>, UserKeys \cup {"account:profile"})
UpdateMyProfile ==
  Does(<<"user", "profile">>, UserKeys \cup {"account:profile"})
UpdateMyCompany ==
  Does(<<"user", "company">>, CompanyKeys \cup {"account:profile"})
DeleteAvatar == Does(<<"profile">>, UserKeys \cup {"account:profile"})
DeleteCompanyLogo == Does(<<"company">>, CompanyKeys \cup {"account:profile"})
DeleteCompanyBanner == Does(<<"company">>, CompanyKeys \cup {"account:profile"})
UploadAvatar == Does(<<"profile">>, UserKeys \cup {"account:profile"})
UploadCompanyImage == Does(<<"company">>, CompanyKeys \cup {"account:profile"})

CreateJobApplication ==
  Does(<<"applicationSet">>, ApplicationKeys \cup AdminKeys)
UpdateJobApplicationStatus == Does(<<"application">>, ApplicationKeys)
UpdateInterviewStatus == Does(<<"application">>, ApplicationKeys)
WithdrawJobApplication == Does(<<"application">>, ApplicationKeys)
AddFavouriteJob == Does(<<"favourite">>, {})
RemoveFavouriteJob == Does(<<"favourite">>, {})

CreateCV == Does(<<"cvSet">>, {"CV_LIST"})
UploadCV == Does(<<"cvSet">>, {"CV_LIST"})
UpdateCV == Does(<<"cv">>, CvKeys)
SetDefaultCV == Does(<<"cv">>, CvKeys)
DeleteCV == Does(<<"cv", "cvSet">>, CvKeys)
\* The rows were hidden before; the applications made with them go now.
CleanupSoftDeletedCVs == Does(<<"applicationSet">>, {"CV_LIST"})
AnalyzeCV == Does(<<"analysis">>, CvKeys)
ParseCV == Does(<<"analysis", "cvSkills">>, CvKeys)
\* The catch of the worker, possibly after the skills were written.
ParseCVFails == Does(<<"analysis", "cvSkills", "analysis">>, {})
SaveTempCVAnalysis == Does(<<"cvSet", "analysis", "cvSkills">>, CvKeys)

AllCommands ==
  [createSkill |-> CreateSkill, updateSkill |-> UpdateSkill,
   deleteSkill |-> DeleteSkill, restoreSkill |-> RestoreSkill,
   createCareerCategory |-> CreateCareerCategory,
   updateCareerCategory |-> UpdateCareerCategory,
   deleteCareerCategory |-> DeleteCareerCategory,
   restoreCareerCategory |-> RestoreCareerCategory,
   createJobSubmitted |-> CreateJobSubmitted,
   createJobDraft |-> CreateJobDraft, updateJob |-> UpdateJob,
   reviewJob |-> ReviewJob, expireOverdueJobs |-> ExpireOverdueJobs,
   deleteJob |-> DeleteJob, updateUserStatus |-> UpdateUserStatus,
   register |-> Register, verifyJobSeeker |-> VerifyJobSeeker,
   verifyRecruiter |-> VerifyRecruiter,
   verifyWithoutData |-> VerifyWithoutData,
   changePassword |-> ChangePassword, updateMyProfile |-> UpdateMyProfile,
   updateMyCompany |-> UpdateMyCompany, deleteAvatar |-> DeleteAvatar,
   deleteCompanyLogo |-> DeleteCompanyLogo,
   deleteCompanyBanner |-> DeleteCompanyBanner,
   uploadAvatar |-> UploadAvatar,
   uploadCompanyImage |-> UploadCompanyImage,
   createJobApplication |-> CreateJobApplication,
   updateJobApplicationStatus |-> UpdateJobApplicationStatus,
   updateInterviewStatus |-> UpdateInterviewStatus,
   withdrawJobApplication |-> WithdrawJobApplication,
   addFavouriteJob |-> AddFavouriteJob,
   removeFavouriteJob |-> RemoveFavouriteJob,
   createCV |-> CreateCV, uploadCV |-> UploadCV, updateCV |-> UpdateCV,
   setDefaultCV |-> SetDefaultCV, deleteCV |-> DeleteCV,
   cleanupSoftDeletedCVs |-> CleanupSoftDeletedCVs,
   analyzeCV |-> AnalyzeCV, parseCV |-> ParseCV,
   parseCVFails |-> ParseCVFails,
   saveTempCVAnalysis |-> SaveTempCVAnalysis]
=============================================================================
